---- MODULE Spec2Model ----
(***************************************************************************)
(* The pipeline supervisor of radio-app-livestream                         *)
(* (backend/src/services/ffmpeg-supervisor.ts, class FFmpegSupervisor),    *)
(* as a state machine.  One action is one turn of the Node event loop: an  *)
(* HTTP handler up to its first real suspension, a timer callback, a child *)
(* process event.  Code between two awaits runs without interleaving, and  *)
(* an await of an already settled promise resumes before any other event,  *)
(* so it does not end the action.                                          *)
(***************************************************************************)
EXTENDS Integers, Sequences, FiniteSets, TLC

\* ------------------------------------------------------------------ bounds

Stations == {"s1", "s2"}

\* the station that the explicit calls of Spec address
OneStation == {"s1"}

\* ffmpeg processes spawned (plus launches still suspended) over a run
MaxProcs == 3
\* explicit start, stop and restart calls over a run
MaxCalls == 3
\* explicit calls plus processes spawned (or launches suspended) over a run
MaxWork == 6
\* largest restart counter the backoff specification applies the delay to
MaxCount == 8
\* playlist_items rows of the station the playlist specification writes for
MaxItems == 2
\* characters of a track string the parsing specification parses
MaxLen == 5
\* ticks of the poller in the files specification
MaxPolls == 3

\* restart_delay_sec values the backoff specification draws from
BaseDelays == {0, 1, 2, 3, 5, 8, 10, 20, 30, 45, 59, 60, 61, 100}

\* stations rows (auto_restart, restart_delay_sec, max_restart_attempts) a
\* handler may read from the configuration store
Configs ==
  { [auto_restart |-> 1, restart_delay_sec |-> 1,  max_restart_attempts |-> 2],
    [auto_restart |-> 1, restart_delay_sec |-> 45, max_restart_attempts |-> 1],
    [auto_restart |-> 0, restart_delay_sec |-> 5,  max_restart_attempts |-> 2] }

\* the stations row read when every station is called
OneConfig == { [auto_restart |-> 1, restart_delay_sec |-> 1, max_restart_attempts |-> 2] }

NullCfg == [auto_restart |-> 0, restart_delay_sec |-> 0, max_restart_attempts |-> 0]

\* what startStation reads when the stations table has no row for the id
NoRow == [auto_restart |-> 0, restart_delay_sec |-> 0, max_restart_attempts |-> -1]

\* --------------------------------------------------------------- variables

\* The configuration store (stations, audio_sources, rtmp_destinations) is
\* written by routes outside the supervisor at any time.  What a handler reads
\* from it is therefore an input of the handler: the stations row, whether an
\* enabled audio source exists, whether an enabled destination exists.  Whether
\* a station has enabled playlist items is kept as state: an upload adds an
\* item, and the routes that delete or disable items run writeConcatPlaylist
\* in the same turn, so a station that had a playlist written never reaches
\* a later handler with no item.
VARIABLES
  dbStatus,            \* stations.status column
  playlistItems,       \* playlist_items: the station has enabled items (1) or none (0)
  blocked,             \* the event loop is inside a loop that does not end
  playlistFile,        \* <stationDir>/playlist.txt exists
  processes,           \* this.processes: station -> StationProcess object (0: no entry)
  objs,                \* the StationProcess objects ever created, by identity
  nowPlayingServices,  \* this.nowPlayingServices has an entry for the station
  pollers,             \* the station's NowPlayingService objects whose interval runs
  restartTimers,       \* this.restartTimers: station -> timer (0: no entry)
  timers,              \* the restart timers ever created by a close handler
  killTimers,          \* objects with a 5 s SIGKILL timer of stopStation pending
  drawtextSupported,   \* this._drawtextSupported: "null", or "cached" (true or false)
  pendingLaunches,     \* launchFFmpeg calls suspended at await checkDrawtextSupport()
  restartWaits,        \* restartStation calls in their 1.5 s settle delay
  statusEvent,         \* the last 'status' event emitted for each station
  calls,               \* explicit calls made so far
  hist,                \* history: per station, what the explicit calls have been
  bk,                  \* the backoff specification's state
  playlist,            \* the playlist specification's state: the station's
                       \* playlist_items rows and the manifest lines written
  disk,                \* the files specification's state: the files of a station
                       \* directory and the system calls its writer has yet to make
  np,                  \* the track parsing specification's state: a track string
                       \* and what parseTrackString returned for it
  pipe,                \* the two-process pipeline specification's state: a station's
                       \* instance with a feeder, and the log events of the last turn
  esc,                 \* the escaping specification's state: a string and its escaped text
  resp                 \* the diagnostics specification's state: an upstream response
                       \* and what the poll loop and testNowPlaying make of it

vars == << dbStatus, playlistItems, blocked, playlistFile, processes, objs, nowPlayingServices, pollers,
           restartTimers, timers, killTimers, drawtextSupported, pendingLaunches, restartWaits,
           statusEvent, calls, hist, bk, playlist, disk, np, pipe, esc, resp >>

\* ------------------------------------------------------------------ helpers

RECURSIVE Pow(_, _)
Pow(b, n) == IF n = 0 THEN 1 ELSE b * Pow(b, n - 1)

\* one millisecond, in the unit delays are kept in: 1.5^n = 3^n / 2^n is then
\* an integer for every n <= MaxCount
Ms == Pow(2, MaxCount)

Min(a, b) == IF a < b THEN a ELSE b

SeqRemove(seq, i) == [ j \in 1 .. (Len(seq) - 1) |-> IF j < i THEN seq[j] ELSE seq[j + 1] ]

\* The supervisor's state and the part of its environment its handlers write,
\* as one value that the handlers' steps transform in sequence.
Cur ==
  [ processes |-> processes, objs |-> objs, nowPlayingServices |-> nowPlayingServices,
    pollers |-> pollers,
    restartTimers |-> restartTimers, timers |-> timers, killTimers |-> killTimers,
    dbStatus |-> dbStatus, playlistFile |-> playlistFile,
    playlistItems |-> playlistItems, blocked |-> blocked,
    pendingLaunches |-> pendingLaunches, statusEvent |-> statusEvent,
    drawtextSupported |-> drawtextSupported ]

\* Garbage collection.  A StationProcess object is reachable from the map, or
\* from the close handler of a process that has not exited; any other object
\* is kept as a bare record of its identity.  A restart timer that has fired
\* or was cleared is kept as a record that it was scheduled.  The timer of
\* stopStation is dropped once its process has exited: kill() of an exited
\* child delivers no signal.
Collect(st) ==
  [st EXCEPT
     !.objs = [ o \in DOMAIN st.objs |->
                  IF st.objs[o].ffmpeg # "live" /\ st.processes[st.objs[o].station] # o
                  THEN [ station |-> st.objs[o].station, ffmpeg |-> st.objs[o].ffmpeg,
                         killed |-> FALSE, sig |-> "none", status |-> "collected",
                         restartCount |-> 0, lastError |-> "", pid |-> 0,
                         cfg |-> NullCfg, stopMarked |-> FALSE ]
                  ELSE st.objs[o] ],
     !.timers = [ t \in DOMAIN st.timers |->
                    IF st.timers[t].state = "pending"
                    THEN st.timers[t]
                    ELSE [ station |-> st.timers[t].station, cfg |-> NullCfg, n |-> 0,
                           delay |-> 0, state |-> "done" ] ],
     !.killTimers = { o \in st.killTimers : st.objs[o].ffmpeg = "live" } ]

Commit(st) ==
  \E c \in {Collect(st)} :
     /\ processes' = c.processes
     /\ objs' = c.objs
     /\ nowPlayingServices' = c.nowPlayingServices
     /\ pollers' = c.pollers
     /\ restartTimers' = c.restartTimers
     /\ timers' = c.timers
     /\ killTimers' = c.killTimers
     /\ dbStatus' = c.dbStatus
     /\ playlistFile' = c.playlistFile
     /\ playlistItems' = c.playlistItems
     /\ blocked' = c.blocked
     /\ pendingLaunches' = c.pendingLaunches
     /\ statusEvent' = c.statusEvent
     /\ drawtextSupported' = c.drawtextSupported

\* objects that hold a child process handle
Spawned(os) == { o \in DOMAIN os : os[o].ffmpeg # "null" }

\* the primary processes of station s that are spawned and have not exited
Live(os, s) == { o \in DOMAIN os : os[o].station = s /\ os[o].ffmpeg = "live" }

Work(os, pl, c) == Cardinality(Spawned(os)) + Len(pl) + c

WithinBounds(st) ==
  /\ Cardinality(Spawned(st.objs)) + Len(st.pendingLaunches) <= MaxProcs
  /\ Work(st.objs, st.pendingLaunches, calls) <= MaxWork

\* ------------------------------------------------------- supervisor methods

\* getStationStatus(stationId).status
StationStatus(st, s) ==
  IF st.processes[s] = 0 THEN "stopped" ELSE st.objs[st.processes[s]].status

\* updateDbStatus
UpdateDbStatus(st, s, status) == [st EXCEPT !.dbStatus[s] = status]

\* this.emit('status', stationId, status)
EmitStatus(st, s, status) == [st EXCEPT !.statusEvent[s] = status]

SetProcessStatus_ResetsCount(st, s, status, error) ==
  LET fresh == [ station |-> s, ffmpeg |-> "null", killed |-> FALSE, sig |-> "none",
                 status |-> status, restartCount |-> 0, lastError |-> error,
                 pid |-> 0, cfg |-> NullCfg,
                 stopMarked |-> FALSE ]
      st1 == IF st.processes[s] = 0
             THEN [st EXCEPT !.objs = Append(@, fresh),
                             !.processes[s] = Len(st.objs) + 1]
             ELSE [st EXCEPT !.objs[st.processes[s]].status = status,
                             !.objs[st.processes[s]].lastError = error,
                             !.objs[st.processes[s]].restartCount = 0]
  IN EmitStatus(UpdateDbStatus(st1, s, status), s, status)

\* setProcessStatus: mutates the object in the map, or enters a fresh one
\* that holds no process handle
SetProcessStatus(st, s, status, error) ==
  LET fresh == [ station |-> s, ffmpeg |-> "null", killed |-> FALSE, sig |-> "none",
                 status |-> status, restartCount |-> 0, lastError |-> error,
                 pid |-> 0, cfg |-> NullCfg,
                 stopMarked |-> FALSE ]
      st1 == IF st.processes[s] = 0
             THEN [st EXCEPT !.objs = Append(@, fresh),
                             !.processes[s] = Len(st.objs) + 1]
             ELSE [st EXCEPT !.objs[st.processes[s]].status = status,
                             !.objs[st.processes[s]].lastError = error]
  IN EmitStatus(UpdateDbStatus(st1, s, status), s, status)

LaunchSpawn_ResetsCount(st, s, cfg) ==
  LET st1 == SetProcessStatus(st, s, "starting", "")
      id  == Len(st1.objs) + 1
      proc == [ station |-> s, ffmpeg |-> "live", killed |-> FALSE, sig |-> "none",
                status |-> "running",
                restartCount |-> 0,
                lastError |-> "", pid |-> id, cfg |-> cfg,
                stopMarked |-> FALSE ]
      st2 == [st1 EXCEPT !.objs = Append(@, proc), !.processes[s] = id]
  IN EmitStatus(UpdateDbStatus(st2, s, "running"), s, "running")

LaunchSpawn_StaysStarting(st, s, cfg) ==
  LET st1 == SetProcessStatus(st, s, "starting", "")
      id  == Len(st1.objs) + 1
      proc == [ station |-> s, ffmpeg |-> "live", killed |-> FALSE, sig |-> "none",
                status |-> "starting",
                restartCount |-> st1.objs[st1.processes[s]].restartCount,
                lastError |-> "", pid |-> id, cfg |-> cfg,
                stopMarked |-> FALSE ]
  IN [st1 EXCEPT !.objs = Append(@, proc), !.processes[s] = id]

\* launchFFmpeg from "Launching FFmpeg" on: status 'starting', spawn, a new
\* StationProcess object in the map, status 'running'.  The new object
\* carries the restart counter of the object it replaces.
LaunchSpawn(st, s, cfg) ==
  LET st1 == SetProcessStatus(st, s, "starting", "")
      id  == Len(st1.objs) + 1
      proc == [ station |-> s, ffmpeg |-> "live", killed |-> FALSE, sig |-> "none",
                status |-> "running",
                restartCount |-> st1.objs[st1.processes[s]].restartCount,
                lastError |-> "", pid |-> id, cfg |-> cfg,
                stopMarked |-> FALSE ]
      st2 == [st1 EXCEPT !.objs = Append(@, proc), !.processes[s] = id]
  IN EmitStatus(UpdateDbStatus(st2, s, "running"), s, "running")

\* launchFFmpeg up to await this.checkDrawtextSupport(): the precondition
\* checks.  With the capability cached the await resumes at once; otherwise
\* the launch stays suspended until its probe process closes.
LaunchFFmpeg(st, s, cfg, audio, dest) ==
  IF ~audio THEN SetProcessStatus(st, s, "error", "No audio source")
  ELSE IF ~dest THEN SetProcessStatus(st, s, "error", "No RTMP destinations")
  ELSE IF ~st.playlistFile[s] THEN SetProcessStatus(st, s, "error", "No playlist")
  ELSE IF st.drawtextSupported # "null" THEN LaunchSpawn(st, s, cfg)
  ELSE [st EXCEPT !.pendingLaunches =
                     Append(@, [station |-> s, cfg |-> cfg])]

\* writeConcatPlaylist: repeats = max(2, ceil(86400 / total duration)) copies
\* of the enabled items are written and renamed into place.  With no enabled
\* item the total is 0, repeats is Infinity and the copying loop never ends.
WriteConcatPlaylist(st, s) ==
  IF st.playlistItems[s] = 0
  THEN [st EXCEPT !.blocked = TRUE]
  ELSE [st EXCEPT !.playlistFile[s] = TRUE]

\* NowPlayingService.stop of the station's map entry, if there is one
StopNowPlaying(st, s) ==
  IF st.nowPlayingServices[s]
  THEN [st EXCEPT !.pollers[s] = @ - 1]
  ELSE st

StartNowPlaying_KeepsOld(st, s) ==
  [st EXCEPT !.pollers[s] = @ + 1, !.nowPlayingServices[s] = TRUE]

\* startNowPlaying: the poller in the map, if any, is stopped; a new one is
\* started and put in the map
StartNowPlaying(st, s) ==
  [StopNowPlaying(st, s) EXCEPT !.pollers[s] = @ + 1, !.nowPlayingServices[s] = TRUE]

\* startStation past its idempotence check
StartLaunch(st, s, cfg, audio, dest) ==
  LET written == WriteConcatPlaylist(st, s)
  IN IF written.blocked
     THEN written
     ELSE LaunchFFmpeg(StartNowPlaying(written, s), s, cfg, audio, dest)

\* startStation; with no row it throws 'Station not found' before it has
\* written anything
StartStationBody(st, s, cfg, audio, dest) ==
  IF StationStatus(st, s) \in {"running", "starting"} /\ st.processes[s] # 0
  THEN st
  ELSE IF cfg = NoRow THEN st
  ELSE StartLaunch(st, s, cfg, audio, dest)

\* ChildProcess.kill(signal): delivered only while the process has not
\* exited, and only then is .killed set
Kill(st, o, signal) ==
  IF st.objs[o].ffmpeg = "live"
  THEN [st EXCEPT !.objs[o].killed = TRUE, !.objs[o].sig = signal]
  ELSE st

StopStationBody_StopsEveryPoller(st, s) ==
  LET cur == st.processes[s]
      st1 == IF cur # 0 /\ st.objs[cur].ffmpeg # "null"
             THEN LET m == [st EXCEPT !.objs[cur].status = "stopped",
                                      !.objs[cur].stopMarked =
                                          @ \/ st.objs[cur].ffmpeg = "live",
                                      !.killTimers = @ \cup {cur}]
                  IN Kill(m, cur, "SIGTERM")
             ELSE st
      st2 == [st1 EXCEPT !.nowPlayingServices = [x \in Stations |-> FALSE],
                         !.pollers = [x \in Stations |-> 0]]
      t   == st2.restartTimers[s]
      st3 == IF t # 0
             THEN [st2 EXCEPT !.timers[t].state = "cleared",
                              !.restartTimers[s] = 0]
             ELSE st2
  IN EmitStatus(UpdateDbStatus(st3, s, "stopped"), s, "stopped")

\* stopStation
StopStationBody(st, s) ==
  LET cur == st.processes[s]
      st1 == IF cur # 0 /\ st.objs[cur].ffmpeg # "null"
             THEN LET m == [st EXCEPT !.objs[cur].status = "stopped",
                                      !.objs[cur].stopMarked =
                                          @ \/ st.objs[cur].ffmpeg = "live",
                                      !.killTimers = @ \cup {cur}]
                  IN Kill(m, cur, "SIGTERM")
             ELSE st
      st2 == [StopNowPlaying(st1, s) EXCEPT !.nowPlayingServices[s] = FALSE]
      t   == st2.restartTimers[s]
      st3 == IF t # 0
             THEN [st2 EXCEPT !.timers[t].state = "cleared",
                              !.restartTimers[s] = 0]
             ELSE st2
  IN EmitStatus(UpdateDbStatus(st3, s, "stopped"), s, "stopped")

BackoffDelay_NoCap(base, n) == base * 1000 * Pow(3, n) * Pow(2, MaxCount - n)

\* the delay of the close handler:
\* Math.min(restart_delay_sec * 1000 * Math.pow(1.5, restartCount), 60000)
BackoffDelay(base, n) ==
  Min(base * 1000 * Pow(3, n) * Pow(2, MaxCount - n), 60000 * Ms)

MayRestart_OffByOne(cfg, n) == cfg.auto_restart # 0 /\ n <= cfg.max_restart_attempts

\* the auto-restart test of the close handler
MayRestart(cfg, n) == cfg.auto_restart # 0 /\ n < cfg.max_restart_attempts

\* ffmpeg.on('close'): closes over proc (object o), station (cfg) and stationId
OnClose(st, o) ==
  LET p == st.objs[o]
      s == p.station
      exited == [st EXCEPT !.objs[o].ffmpeg = "exited"]
  IN IF p.status = "stopped"
     THEN exited
     ELSE LET st1 == EmitStatus([exited EXCEPT !.objs[o].status = "error",
                                               !.objs[o].lastError = "FFmpeg exited"],
                                s, "error")
          IN IF MayRestart(p.cfg, p.restartCount)
             THEN [st1 EXCEPT !.objs[o].restartCount = @ + 1,
                              !.timers = Append(@, [station |-> s, cfg |-> p.cfg,
                                                    n |-> p.restartCount,
                                                    delay |-> BackoffDelay(p.cfg.restart_delay_sec,
                                                                           p.restartCount),
                                                    state |-> "pending"]),
                              !.restartTimers[s] = Len(st1.timers) + 1]
             ELSE st1

ResetRestartCount_Skipped(st, s) == st

\* restartStation after the settle delay: if (proc) proc.restartCount = 0
ResetRestartCount(st, s) ==
  IF st.processes[s] # 0
  THEN [st EXCEPT !.objs[st.processes[s]].restartCount = 0]
  ELSE st

\* ffmpeg.on('error')
OnError(st, o) ==
  EmitStatus([st EXCEPT !.objs[o].status = "error",
                        !.objs[o].lastError = "spawn ffmpeg ENOENT"],
             st.objs[o].station, "error")

SpawnError_NoClose(st, o) ==
  [OnError([st EXCEPT !.objs[o].pid = 0], o) EXCEPT !.objs[o].ffmpeg = "exited"]

\* The spawn of a launch fails: spawn() returns a ChildProcess without a pid,
\* and on the next tick, before any other event, the child emits 'error' and
\* then 'close' ("the 'close' event will always emit after 'exit' was already
\* emitted, or 'error' if the child process failed to spawn").
SpawnError(st, o) == OnClose(OnError([st EXCEPT !.objs[o].pid = 0], o), o)

\* the turn that ran from before to st has spawned a process
Spawns(before, st) ==
  Len(st.objs) > Len(before.objs) /\ st.objs[Len(st.objs)].ffmpeg = "live"

\* what a turn that ran as far as st leaves: with fails, its launch has
\* reached the spawn and the spawn fails
SpawnOutcome(before, st, fails) ==
  IF fails THEN SpawnError(st, Len(st.objs)) ELSE st

\* the 5 s timer of stopStation
OnKillTimer(st, o) ==
  LET st1 == [st EXCEPT !.killTimers = @ \ {o}]
  IN IF st.objs[o].ffmpeg # "null" /\ ~st.objs[o].killed
     THEN Kill(st1, o, "SIGKILL")
     ELSE st1

\* ------------------------------------------------------------------ history

PendingTimers(ts, s) == { t \in DOMAIN ts : ts[t].station = s /\ ts[t].state = "pending" }

\* the station is in Error with an automatic restart timer pending
RetryPending(s) == StationStatus(Cur, s) = "error" /\ PendingTimers(timers, s) # {}

\* the station is in Error, its budget spent, and nothing is scheduled
Exhausted(s) ==
  /\ processes[s] # 0
  /\ LET p == objs[processes[s]]
     IN /\ p.status = "error"
        /\ p.ffmpeg = "exited"
        /\ p.cfg.auto_restart # 0
        /\ p.restartCount = p.cfg.max_restart_attempts
  /\ PendingTimers(timers, s) = {}
  /\ Live(objs, s) = {}

NextTrace(tr, op) ==
  IF op = "start" /\ tr = "" THEN "S"
  ELSE IF op = "start" /\ tr = "S" THEN "SS"
  ELSE "X"

\* the history after an explicit call op for station s; threw: the last
\* startStation call made for it through the API threw
Called(s, op, threw) ==
  /\ calls < MaxCalls
  /\ calls' = calls + 1
  /\ Work(objs', pendingLaunches', calls') <= MaxWork
  /\ hist' = [hist EXCEPT
             ![s].trace = NextTrace(@, op),
             ![s].stopGuard = IF op = "stop" THEN RetryPending(s) ELSE FALSE,
             ![s].startOnPending = @ \/ (op = "start" /\ RetryPending(s)),
             ![s].rx = IF op = "restart" /\ Exhausted(s) THEN "settling" ELSE "none",
             ![s].threw = threw]

\* -------------------------------------------------------------------- Init

\* no rows, nothing written
NoPlaylist == [items |-> << >>, lines |-> << >>]

\* no pipeline launched, nothing logged
NoPipe == [ffmpeg |-> "null", feeders |-> 0, status |-> "stopped", restartCount |-> 0,
           lastError |-> "", timer |-> FALSE, launches |-> 0,
           chunk |-> << >>, log |-> << >>]

\* nothing escaped
NoEscape == [kind |-> "none", text |-> << >>, escaped |-> << >>]

\* nothing computed from a response yet
NoResult == [done |-> FALSE, threw |-> FALSE, artist |-> << >>, title |-> << >>, full |-> << >>]

\* no response fetched
NoResponse ==
  [mode |-> "none",
   body |-> [ok |-> TRUE, present |-> FALSE, artist |-> << >>, title |-> << >>,
             text |-> << >>, server_name |-> << >>],
   poll |-> NoResult, test |-> NoResult]

\* no track string
NoTrack == [text |-> << >>, parsed |-> FALSE, artist |-> << >>, title |-> << >>, full |-> << >>]

\* an empty station directory, no system call pending
NoDisk == [files |-> << >>, ops |-> << >>, lastTrack |-> "", poller |-> FALSE,
             polls |-> 0, tracks |-> 0, errors |-> 0]

InitSupervisor ==
  /\ dbStatus = [s \in Stations |-> "stopped"]
  /\ playlistItems \in [Stations -> {0, 1}]
  /\ blocked = FALSE
  /\ playlistFile = [s \in Stations |-> FALSE]
  /\ processes = [s \in Stations |-> 0]
  /\ objs = << >>
  /\ nowPlayingServices = [s \in Stations |-> FALSE]
  /\ pollers = [s \in Stations |-> 0]
  /\ restartTimers = [s \in Stations |-> 0]
  /\ timers = << >>
  /\ killTimers = {}
  /\ drawtextSupported = "null"
  /\ pendingLaunches = << >>
  /\ restartWaits = [s \in Stations |-> 0]
  /\ statusEvent = [s \in Stations |-> "none"]
  /\ calls = 0
  /\ hist = [s \in Stations |-> [trace |-> "", stopGuard |-> FALSE,
                                 startOnPending |-> FALSE, rx |-> "none",
                                 threw |-> FALSE]]

\* the supervisor after construction; only a station of OneStation may have
\* no playlist item yet
Init ==
  /\ InitSupervisor
  /\ \A s \in Stations \ OneStation : playlistItems[s] = 1
  /\ bk = [base |-> 0, n |-> 0, delay |-> 0, prev |-> 0]
  /\ playlist = NoPlaylist
  /\ disk = NoDisk
  /\ np = NoTrack
  /\ pipe = NoPipe
  /\ esc = NoEscape
  /\ resp = NoResponse

\* ----------------------------------------------------------------- actions

\* startStation returns at once: the station is Running or Starting
Idempotent(s) == processes[s] # 0 /\ StationStatus(Cur, s) \in {"running", "starting"}

\* startStation throws (its promise rejects): the only throw is the one for
\* a missing row; launchFFmpeg is not awaited and its precondition checks
\* return
StartThrows(s, cfg) == ~Idempotent(s) /\ cfg = NoRow

\* POST /api/stations/:id/start; cfg, audio and dest are what the call reads
\* from the configuration store
StartStationTurn(s, cfg, audio, dest, fails) ==
  /\ ~blocked
  /\ Idempotent(s) => cfg = NullCfg /\ audio /\ dest
  /\ ~Idempotent(s) => cfg \in Configs \cup {NoRow}
  /\ cfg = NoRow => audio /\ dest
  /\ LET st == StartStationBody(Cur, s, cfg, audio, dest)
     IN /\ WithinBounds(st)
        /\ fails => Spawns(Cur, st)
        /\ Commit(SpawnOutcome(Cur, st, fails))
  /\ Called(s, "start", StartThrows(s, cfg))
  /\ UNCHANGED << restartWaits, bk, playlist, disk, np, pipe, esc, resp >>

\* the call, its spawn (if it gets that far) succeeding
StartStation(s, cfg, audio, dest) == StartStationTurn(s, cfg, audio, dest, FALSE)

\* the probe of a suspended launch closes: the capability is cached and the
\* launch resumes
LaunchResumeTurn(i, fails) ==
  /\ ~blocked
  /\ i \in DOMAIN pendingLaunches
  /\ LET l  == pendingLaunches[i]
         st == LaunchSpawn([Cur EXCEPT !.pendingLaunches = SeqRemove(@, i),
                                       !.drawtextSupported = "cached"],
                           l.station, l.cfg)
     IN /\ Commit(SpawnOutcome(Cur, st, fails))
        /\ hist' = [hist EXCEPT ![l.station].rx = IF @ = "done" THEN "none" ELSE @]
  /\ UNCHANGED << restartWaits, calls, bk, playlist, disk, np, pipe, esc, resp >>

\* the resumed launch's spawn succeeding
LaunchResume(i) == LaunchResumeTurn(i, FALSE)

\* POST /api/stations/:id/stop
StopStation(s) ==
  /\ ~blocked
  /\ Commit(StopStationBody(Cur, s))
  /\ Called(s, "stop", hist[s].threw)
  /\ UNCHANGED << restartWaits, bk, playlist, disk, np, pipe, esc, resp >>

\* POST /api/stations/:id/restart, up to the settle delay
RestartStation(s) ==
  /\ ~blocked
  /\ Commit(StopStationBody(EmitStatus(Cur, s, "restarting"), s))
  /\ restartWaits' = [restartWaits EXCEPT ![s] = @ + 1]
  /\ Called(s, "restart", hist[s].threw)
  /\ UNCHANGED << bk, playlist, disk, np, pipe, esc, resp >>

\* restartStation after the settle delay: the counter is reset, then
\* startStation
RestartResumeTurn(s, cfg, audio, dest, fails) ==
  /\ ~blocked
  /\ restartWaits[s] > 0
  /\ LET st == StartStationBody(ResetRestartCount(Cur, s), s, cfg, audio, dest)
     IN /\ Idempotent(s) => cfg = NullCfg /\ audio /\ dest
        /\ ~Idempotent(s) => cfg \in Configs \cup {NoRow}
        /\ cfg = NoRow => audio /\ dest
        /\ WithinBounds(st)
        /\ fails => Spawns(Cur, st)
        /\ Commit(SpawnOutcome(Cur, st, fails))
  /\ restartWaits' = [restartWaits EXCEPT ![s] = @ - 1]
  /\ hist' = [hist EXCEPT ![s].rx = IF @ = "settling" THEN "done" ELSE "none"]
  /\ UNCHANGED << calls, bk, playlist, disk, np, pipe, esc, resp >>

\* the resumed restart, its spawn (if it gets that far) succeeding
RestartResume(s, cfg, audio, dest) == RestartResumeTurn(s, cfg, audio, dest, FALSE)

\* the primary process of object o exits and its 'close' event is handled
ProcessClose(o) ==
  /\ ~blocked
  /\ o \in DOMAIN objs
  /\ objs[o].ffmpeg = "live"
  /\ Commit(OnClose(Cur, o))
  /\ hist' = [hist EXCEPT ![objs[o].station].rx = "none"]
  /\ UNCHANGED << restartWaits, calls, bk, playlist, disk, np, pipe, esc, resp >>

\* a restart timer fires: launchFFmpeg with the closed-over station row
TimerFireTurn(t, audio, dest, fails) ==
  /\ ~blocked
  /\ t \in DOMAIN timers
  /\ timers[t].state = "pending"
  /\ LET s  == timers[t].station
         st == LaunchFFmpeg([Cur EXCEPT !.timers[t].state = "fired"], s,
                            timers[t].cfg, audio, dest)
     IN /\ WithinBounds(st)
        /\ fails => Spawns(Cur, st)
        /\ Commit(SpawnOutcome(Cur, st, fails))
        /\ hist' = [hist EXCEPT ![s].rx = "none"]
  /\ UNCHANGED << restartWaits, calls, bk, playlist, disk, np, pipe, esc, resp >>

\* the relaunch, its spawn (if it gets that far) succeeding
TimerFire(t, audio, dest) == TimerFireTurn(t, audio, dest, FALSE)

\* POST /api/stations/:id/playlist/upload: an item is inserted, enabled
UploadItem(s) ==
  /\ ~blocked
  /\ playlistItems[s] = 0
  /\ playlistItems' = [playlistItems EXCEPT ![s] = 1]
  /\ UNCHANGED << dbStatus, blocked, playlistFile, processes, objs, nowPlayingServices, pollers,
                  restartTimers, timers, killTimers, drawtextSupported,
                  pendingLaunches, restartWaits, statusEvent, calls, hist, bk, playlist, disk, np, pipe, esc, resp >>

\* the 5 s timer of a stopStation call fires
KillTimerFire(o) ==
  /\ ~blocked
  /\ o \in killTimers
  /\ Commit(OnKillTimer(Cur, o))
  /\ UNCHANGED << restartWaits, calls, hist, bk, playlist, disk, np, pipe, esc, resp >>

\* the turns of the event loop: the explicit calls address the stations of S
\* and read a stations row of C; D is what a launch may read for the presence
\* of an enabled destination
NextOver(S, C, D) ==
  \/ \E s \in S, cfg \in C \cup {NullCfg}, audio \in BOOLEAN, dest \in D :
        StartStation(s, cfg, audio, dest)
  \/ \E i \in 1 .. MaxCalls : LaunchResume(i)
  \/ \E s \in S : UploadItem(s)
  \/ \E s \in S : StopStation(s)
  \/ \E s \in S : RestartStation(s)
  \/ \E s \in S, cfg \in C \cup {NullCfg}, audio \in BOOLEAN, dest \in D :
        RestartResume(s, cfg, audio, dest)
  \/ \E o \in 1 .. (MaxProcs + Cardinality(Stations)) : ProcessClose(o)
  \/ \E t \in 1 .. MaxProcs, audio \in BOOLEAN, dest \in D : TimerFire(t, audio, dest)
  \/ \E o \in 1 .. (MaxProcs + Cardinality(Stations)) : KillTimerFire(o)

Next == NextOver(OneStation, Configs, BOOLEAN)

Spec == Init /\ [][Next]_vars

\* the probe process of a suspended launch of station s closes
LaunchResumeFor(s) ==
  \E i \in 1 .. MaxCalls :
    /\ i \in DOMAIN pendingLaunches
    /\ pendingLaunches[i].station = s
    /\ LaunchResume(i)

\* The probe (ffmpeg -filters) of checkDrawtextSupport prints and exits, or
\* fails to spawn; either way its promise settles and the launch resumes.
FairSpec == Spec /\ \A s \in Stations : WF_vars(LaunchResumeFor(s))

\* restart timer t fires, whatever its launch reads
TimerFires(t) == \E audio \in BOOLEAN, dest \in BOOLEAN : TimerFire(t, audio, dest)

\* A timer set by setTimeout and not cleared runs its callback once its delay
\* has passed.
FairTimerSpec == FairSpec /\ \A t \in 1 .. MaxProcs : WF_vars(TimerFires(t))

\* every station is called; a launch finds an enabled destination
NextAll == NextOver(Stations, OneConfig, {TRUE})

SpecAll == Init /\ [][NextAll]_vars

\* startStation and restartStation are also called for an id with no row
NextCaller == NextOver(OneStation, OneConfig \cup {NoRow}, BOOLEAN)

SpecCaller == Init /\ [][NextCaller]_vars

\* the stations row read when two stations are compared: one automatic
\* restart allowed
PairConfig == { [auto_restart |-> 1, restart_delay_sec |-> 45, max_restart_attempts |-> 1] }

\* every station is called and reads the row of PairConfig
NextPair == NextOver(Stations, PairConfig, {TRUE})

SpecPair == Init /\ [][NextPair]_vars

\* a launch that reaches its spawn finds no ffmpeg executable
StartStationSpawnFails(s, cfg) == StartStationTurn(s, cfg, TRUE, TRUE, TRUE)

LaunchResumeSpawnFails(i) == LaunchResumeTurn(i, TRUE)

RestartResumeSpawnFails(s, cfg) == RestartResumeTurn(s, cfg, TRUE, TRUE, TRUE)

TimerFireSpawnFails(t) == TimerFireTurn(t, TRUE, TRUE, TRUE)

\* the turns of the event loop when a spawn may fail
NextSpawn ==
  \/ NextOver(OneStation, Configs, {TRUE})
  \/ \E s \in OneStation, cfg \in Configs : StartStationSpawnFails(s, cfg)
  \/ \E i \in 1 .. MaxCalls : LaunchResumeSpawnFails(i)
  \/ \E s \in OneStation, cfg \in Configs : RestartResumeSpawnFails(s, cfg)
  \/ \E t \in 1 .. MaxProcs : TimerFireSpawnFails(t)

SpecSpawn == Init /\ [][NextSpawn]_vars

\* ------------------------------------------------- the backoff computation

\* the close handler's delay for restart counter bk.n, then restartCount++
BackoffStep ==
  /\ bk.n <= MaxCount
  /\ bk' = [bk EXCEPT !.delay = BackoffDelay(bk.base, bk.n), !.prev = bk.delay,
                      !.n = @ + 1]
  /\ UNCHANGED << dbStatus, playlistItems, blocked, playlistFile, processes, objs,
                  nowPlayingServices, pollers, restartTimers, timers, killTimers,
                  drawtextSupported, pendingLaunches, restartWaits, statusEvent,
                  calls, hist, playlist, disk, np, pipe, esc, resp >>

InitBackoff ==
  /\ InitSupervisor
  /\ \E b \in BaseDelays : bk = [base |-> b, n |-> 0, delay |-> 0, prev |-> 0]
  /\ playlist = NoPlaylist
  /\ disk = NoDisk
  /\ np = NoTrack
  /\ pipe = NoPipe
  /\ esc = NoEscape
  /\ resp = NoResponse

NextBackoff == BackoffStep

SpecBackoff == InitBackoff /\ [][NextBackoff]_vars

\* ------------------------------------------------- the playlist manifest

\* duration_sec IS NULL
Null == -1

\* hoursTarget * 3600
TargetSeconds == 86400

\* the duration assumed for an item that has none
DefaultDurationSec == 300

\* sort_order, is_enabled and duration_sec of a row; duration_sec is NULL or
\* the positive length of the video in seconds
ItemAttrs ==
  [ sort_order : {0, 1, 2}, is_enabled : {0, 1},
    duration_sec : {Null, 7200, 43200, 86400, 100000} ]

\* the playlist_items rows of one station, in storage order; row i holds
\* filename i
ItemTables ==
  UNION { { [ i \in 1 .. n |-> [ filename     |-> i,
                                 sort_order   |-> a[i].sort_order,
                                 is_enabled   |-> a[i].is_enabled,
                                 duration_sec |-> a[i].duration_sec ] ] :
            a \in [1 .. n -> ItemAttrs] } : n \in 0 .. MaxItems }

\* SELECT filename, duration_sec ... WHERE is_enabled = 1 ORDER BY sort_order
\* ASC: the results the query may give.  Rows of equal sort_order come in an
\* order SQL leaves open.
SelectEnabled(items) ==
  LET E == { i \in DOMAIN items : items[i].is_enabled = 1 }
      k == Cardinality(E)
  IN { [ j \in 1 .. k |-> items[q[j]] ] :
         q \in { r \in [1 .. k -> E] :
                   /\ \A i \in 1 .. k, j \in 1 .. k : i # j => r[i] # r[j]
                   /\ \A i \in 1 .. k, j \in 1 .. k :
                         i < j => items[r[i]].sort_order <= items[r[j]].sort_order } }

\* `file '<uploadsDir>/<filename>'`
ManifestLine(item) == << "file", item.filename >>

\* i.duration_sec || 300
DurationOrDefault(d) == IF d = Null \/ d = 0 THEN DefaultDurationSec ELSE d

\* items.reduce((sum, i) => sum + (i.duration_sec || 300), 0)
RECURSIVE TotalDurationSec(_)
TotalDurationSec(items) ==
  IF items = << >> THEN 0
  ELSE DurationOrDefault(Head(items).duration_sec) + TotalDurationSec(Tail(items))

\* Math.ceil(a / b) for b > 0
CeilDiv(a, b) == (a + b - 1) \div b

Max(a, b) == IF a > b THEN a ELSE b

Repeats_NoMinimum(totalDurationSec) == CeilDiv(TargetSeconds, totalDurationSec)

\* Math.max(2, Math.ceil((hoursTarget * 3600) / totalDurationSec))
Repeats(totalDurationSec) == Max(2, CeilDiv(TargetSeconds, totalDurationSec))

\* for (let i = 0; i < repeats; i++) repeatedLines.push(...lines): the array
\* after the loop, whose element j was pushed in pass (j - 1) \div Len(lines)
\* from element ((j - 1) % Len(lines)) + 1 of lines
RepeatLines(lines, repeats) ==
  [ j \in 1 .. (repeats * Len(lines)) |-> lines[((j - 1) % Len(lines)) + 1] ]

\* the lines writeConcatPlaylist writes for a query result with a row in it
ConcatManifest(items) ==
  RepeatLines([ j \in DOMAIN items |-> ManifestLine(items[j]) ],
              Repeats(TotalDurationSec(items)))

\* writeConcatPlaylist for the station of the table: with no enabled row the
\* copying loop does not end, otherwise the manifest is written
WriteManifest(s) ==
  /\ ~blocked
  /\ playlist.lines = << >>
  /\ \E items \in SelectEnabled(playlist.items) :
        playlist' = [playlist EXCEPT
                       !.lines = IF items = << >> THEN << >> ELSE ConcatManifest(items)]
  /\ LET st == WriteConcatPlaylist(Cur, s)
     IN /\ blocked' = st.blocked
        /\ playlistFile' = st.playlistFile
  /\ UNCHANGED << dbStatus, playlistItems, processes, objs, nowPlayingServices, pollers,
                  restartTimers, timers, killTimers, drawtextSupported,
                  pendingLaunches, restartWaits, statusEvent, calls, hist, bk, disk, np, pipe, esc, resp >>

\* a station with any table of rows; playlistItems tells whether the table
\* has an enabled row
InitPlaylist ==
  /\ InitSupervisor
  /\ bk = [base |-> 0, n |-> 0, delay |-> 0, prev |-> 0]
  /\ disk = NoDisk
  /\ np = NoTrack
  /\ pipe = NoPipe
  /\ esc = NoEscape
  /\ resp = NoResponse
  /\ \E items \in ItemTables :
        /\ playlist = [items |-> items, lines |-> << >>]
        /\ playlistItems =
             [ s \in Stations |->
                 IF s \in OneStation /\ SelectEnabled(items) = { << >> } THEN 0 ELSE 1 ]

NextPlaylist == \E s \in OneStation : WriteManifest(s)

SpecPlaylist == InitPlaylist /\ [][NextPlaylist]_vars

\* ------------------------------------------ the files of a station directory

\* Another process (ffmpeg with drawtext reload=1, the concat demuxer) reads
\* these files between any two system calls of the backend.  A step of this
\* specification is therefore one system call, not one turn of the event
\* loop: fs.writeFileSync(path, data) is open(path, O_WRONLY | O_CREAT |
\* O_TRUNC), after which the file exists and is empty, then write(data);
\* fs.renameSync is the one call rename().

FinalNames == {"playlist.txt", "nowplaying.txt", "artist.txt", "songtitle.txt"}

\* <name> and <name>.tmp
Paths == [name : FinalNames, tmp : BOOLEAN]

Final(name) == [name |-> name, tmp |-> FALSE]

Temp(name) == [name |-> name, tmp |-> TRUE]

Absent == [state |-> "absent", data |-> ""]

Empty == [state |-> "empty", data |-> ""]

Content(data) == [state |-> "data", data |-> data]

\* what the fetch of a poll may return: info.full, info.artist, info.title
Tracks ==
  { [full |-> "Artist - Title", artist |-> "Artist", title |-> "Title"],
    [full |-> "Title", artist |-> "", title |-> "Title"],
    [full |-> "", artist |-> "", title |-> ""] }

\* fs.writeFileSync(path, data)
WriteFileSync(path, data) ==
  << [call |-> "open", path |-> path, data |-> "", to |-> path],
     [call |-> "write", path |-> path, data |-> data, to |-> path] >>

\* fs.renameSync(from, to)
RenameSync(from, to) == << [call |-> "rename", path |-> from, data |-> "", to |-> to] >>

\* NowPlayingService.writeFileAtomic
WriteFileAtomic(name, content) ==
  WriteFileSync(Temp(name), content) \o RenameSync(Temp(name), Final(name))

\* the backend is between two synchronous sections
Idle == disk.ops = << >>

OutsideDisk ==
  << dbStatus, playlistItems, blocked, playlistFile, processes, objs, nowPlayingServices, pollers,
     restartTimers, timers, killTimers, drawtextSupported, pendingLaunches,
     restartWaits, statusEvent, calls, hist, bk, playlist, np, pipe, esc, resp >>

\* the file writes of writeConcatPlaylist
WriteConcatPlaylistFiles ==
  /\ Idle
  /\ disk' = [disk EXCEPT !.ops = WriteFileSync(Temp("playlist.txt"), "manifest")
                                    \o RenameSync(Temp("playlist.txt"), Final("playlist.txt"))]
  /\ UNCHANGED OutsideDisk

\* the file writes of startNowPlaying; the poller it creates has no last track
StartNowPlayingFiles ==
  /\ Idle
  /\ disk' = [disk EXCEPT !.ops = WriteFileSync(Final("nowplaying.txt"), "Starting...")
                                    \o WriteFileSync(Final("artist.txt"), " ")
                                    \o WriteFileSync(Final("songtitle.txt"), "Starting..."),
                          !.lastTrack = "",
                          !.poller = TRUE]
  /\ UNCHANGED OutsideDisk

\* if (!info.full) { info.full = 'No track info'; info.artist = ''; ... }
TrackOrNone(info) ==
  IF info.full = ""
  THEN [full |-> "No track info", artist |-> "", title |-> "No track info"]
  ELSE info

PollTry_AlwaysWrites(d, fetched) ==
  LET info == TrackOrNone(fetched)
  IN [d EXCEPT
        !.lastTrack = info.full,
        !.tracks = @ + 1,
        !.ops = WriteFileAtomic("nowplaying.txt", info.full)
                  \o WriteFileAtomic("artist.txt",
                                      IF info.artist = "" THEN " " ELSE info.artist)
                  \o WriteFileAtomic("songtitle.txt",
                                      IF info.title = "" THEN info.full ELSE info.title)]

\* the try block of poll after its fetch returned: the three files are
\* written and 'track' is emitted when the combined string is not lastTrack
PollTry(d, fetched) ==
  LET info == TrackOrNone(fetched)
  IN IF info.full # d.lastTrack
     THEN [d EXCEPT
             !.lastTrack = info.full,
             !.tracks = @ + 1,
             !.ops = WriteFileAtomic("nowplaying.txt", info.full)
                       \o WriteFileAtomic("artist.txt",
                                           IF info.artist = "" THEN " " ELSE info.artist)
                       \o WriteFileAtomic("songtitle.txt",
                                           IF info.title = "" THEN info.full ELSE info.title)]
     ELSE d

PollCatch_ForgetsTrack(d) == [d EXCEPT !.errors = @ + 1, !.lastTrack = ""]

\* the catch block of poll: 'error' is emitted, which the supervisor logs as
\* a warning
PollCatch(d) == [d EXCEPT !.errors = @ + 1]

\* a tick of the poller whose fetch returns info
Poll(info) ==
  /\ Idle
  /\ disk.poller
  /\ disk.polls < MaxPolls
  /\ disk' = [PollTry(disk, info) EXCEPT !.polls = @ + 1]
  /\ UNCHANGED OutsideDisk

\* a tick of the poller whose fetch throws: HTTP status not ok, network
\* error, or the 5 s AbortSignal.timeout
PollFails ==
  /\ Idle
  /\ disk.poller
  /\ disk.polls < MaxPolls
  /\ disk' = [PollCatch(disk) EXCEPT !.polls = @ + 1]
  /\ UNCHANGED OutsideDisk

\* the file writes of generatePreview, which returns early without a manifest
GeneratePreviewFiles ==
  /\ Idle
  /\ disk.files[Final("playlist.txt")] # Absent
  /\ disk' = [disk EXCEPT
               !.ops = (IF disk.files[Final("artist.txt")] = Absent
                        THEN WriteFileSync(Final("artist.txt"), "Sample Artist")
                        ELSE << >>)
                       \o (IF disk.files[Final("songtitle.txt")] = Absent
                           THEN WriteFileSync(Final("songtitle.txt"), "Sample Song Title")
                           ELSE << >>)]
  /\ UNCHANGED OutsideDisk

\* the next system call of the synchronous section in progress
SysCall ==
  /\ disk.ops # << >>
  /\ LET c == Head(disk.ops)
     IN disk' = [disk EXCEPT
                   !.ops = Tail(@),
                   !.files = IF c.call = "open" THEN [@ EXCEPT ![c.path] = Empty]
                             ELSE IF c.call = "write"
                                  THEN [@ EXCEPT ![c.path] = Content(c.data)]
                             ELSE [@ EXCEPT ![c.to] = disk.files[c.path],
                                            ![c.path] = Absent]]
  /\ UNCHANGED OutsideDisk

\* a station directory that was just created
InitFiles ==
  /\ InitSupervisor
  /\ bk = [base |-> 0, n |-> 0, delay |-> 0, prev |-> 0]
  /\ playlist = NoPlaylist
  /\ disk = [files |-> [p \in Paths |-> Absent], ops |-> << >>,
             lastTrack |-> "", poller |-> FALSE,
             polls |-> 0, tracks |-> 0, errors |-> 0]
  /\ np = NoTrack
  /\ pipe = NoPipe
  /\ esc = NoEscape
  /\ resp = NoResponse

NextFiles ==
  \/ WriteConcatPlaylistFiles
  \/ StartNowPlayingFiles
  \/ \E info \in Tracks : Poll(info)
  \/ PollFails
  \/ GeneratePreviewFiles
  \/ SysCall

SpecFiles == InitFiles /\ [][NextFiles]_vars

\* ------------------------------------------------- the life of a poller

\* The pollers of one station, one after the other: startNowPlaying creates
\* a NowPlayingService, stopStation stops the one in the map.  poll is
\* suspended at its fetch, so a step is the part of poll before the fetch
\* (PollerStart, PollerTick) or the part after it (PollerFetched,
\* PollerFetchFails); a stopped object's suspended polls go on.

MaxGens == 2

Gens == 1..MaxGens

\* startNowPlaying: the poller in the map is stopped, the three files are
\* initialised, a new object is created and start() calls poll(), which
\* suspends at its fetch, and sets the interval
PollerStart ==
  /\ Idle
  /\ disk.gen < MaxGens
  /\ LET g == disk.gen + 1
     IN disk' = [disk EXCEPT
                   !.ops = WriteFileSync(Final("nowplaying.txt"), "Starting...")
                             \o WriteFileSync(Final("artist.txt"), " ")
                             \o WriteFileSync(Final("songtitle.txt"), "Starting..."),
                   !.gen = g,
                   !.last[g] = "",
                   !.fetching[g] = @ + 1,
                   !.poller = TRUE,
                   !.stopped = FALSE]
  /\ UNCHANGED OutsideDisk

\* the interval of the object in the map fires: poll() suspends at its fetch
PollerTick ==
  /\ Idle
  /\ disk.poller
  /\ disk.polls < MaxPolls
  /\ disk' = [disk EXCEPT !.fetching[disk.gen] = @ + 1, !.polls = @ + 1]
  /\ UNCHANGED OutsideDisk

\* the rest of poll once the fetch of object g has returned info; nothing in
\* it looks at the object's timer
PollerResume(g, info) ==
  LET d == PollTry([disk EXCEPT !.lastTrack = disk.last[g]], info)
  IN [d EXCEPT !.last[g] = d.lastTrack, !.fetching[g] = @ - 1]

\* a suspended poll of object g resumes with the fetched track
PollerFetched(g, info) ==
  /\ Idle
  /\ disk.fetching[g] > 0
  /\ disk' = PollerResume(g, info)
  /\ UNCHANGED OutsideDisk

\* a suspended poll of object g resumes in its catch block
PollerFetchFails(g) ==
  /\ Idle
  /\ disk.fetching[g] > 0
  /\ disk' = [PollCatch(disk) EXCEPT !.fetching[g] = @ - 1]
  /\ UNCHANGED OutsideDisk

\* stopStation: the object in the map is stopped (clearInterval) and deleted
\* from the map
PollerStop ==
  /\ Idle
  /\ disk.poller
  /\ disk' = [disk EXCEPT !.poller = FALSE, !.stopped = TRUE]
  /\ UNCHANGED OutsideDisk

\* a station directory that was just created, no poller yet
InitPoller ==
  /\ InitSupervisor
  /\ \A s \in Stations : playlistItems[s] = 1
  /\ bk = [base |-> 0, n |-> 0, delay |-> 0, prev |-> 0]
  /\ playlist = NoPlaylist
  /\ disk = [files |-> [p \in Paths |-> Absent], ops |-> << >>,
             lastTrack |-> "", poller |-> FALSE,
             polls |-> 0, tracks |-> 0, errors |-> 0,
             gen |-> 0, last |-> [g \in Gens |-> ""],
             fetching |-> [g \in Gens |-> 0], stopped |-> FALSE]
  /\ np = NoTrack
  /\ pipe = NoPipe
  /\ esc = NoEscape
  /\ resp = NoResponse

NextPoller ==
  \/ PollerStart
  \/ PollerTick
  \/ \E g \in Gens, info \in Tracks : PollerFetched(g, info)
  \/ \E g \in Gens : PollerFetchFails(g)
  \/ PollerStop
  \/ SysCall

SpecPoller == InitPoller /\ [][NextPoller]_vars

\* --------------------------------------------------- parsing a track string

\* the characters of a track string: a letter, the space, the dash
Chars == {"a", " ", "-"}

\* a string is the sequence of its characters
Strings == UNION { [1 .. n -> Chars] : n \in 0 .. MaxLen }

\* ' - '
Separator == << " ", "-", " " >>

\* String.prototype.indexOf: the least 0-based index at which sub occurs, or -1
IndexOf(text, sub) ==
  LET at == { i \in 0 .. (Len(text) - Len(sub)) :
                \A j \in 1 .. Len(sub) : text[i + j] = sub[j] }
  IN IF at = {} THEN -1 ELSE CHOOSE i \in at : \A k \in at : i <= k

\* String.prototype.substring(from, to), 0-based, to exclusive
Substring(text, from, to) == SubSeq(text, from + 1, to)

\* String.prototype.trim
RECURSIVE Trim(_)
Trim(text) ==
  IF text = << >> THEN text
  ELSE IF Head(text) = " " THEN Trim(Tail(text))
  ELSE IF text[Len(text)] = " " THEN Trim(SubSeq(text, 1, Len(text) - 1))
  ELSE text

\* parseTrackString
ParseTrackString(text) ==
  IF text = << >> THEN [artist |-> << >>, title |-> << >>, full |-> << >>]
  ELSE LET dashIdx == IndexOf(text, Separator)
       IN IF dashIdx > 0
          THEN [ artist |-> Trim(Substring(text, 0, dashIdx)),
                 title  |-> Trim(Substring(text, dashIdx + 3, Len(text))),
                 full   |-> text ]
          ELSE [ artist |-> << >>, title |-> text, full |-> text ]

\* a call of parseTrackString with the track string
ParseTrack ==
  /\ ~np.parsed
  /\ LET info == ParseTrackString(np.text)
     IN np' = [np EXCEPT !.parsed = TRUE, !.artist = info.artist,
                         !.title = info.title, !.full = info.full]
  /\ UNCHANGED << dbStatus, playlistItems, blocked, playlistFile, processes, objs,
                  nowPlayingServices, pollers, restartTimers, timers, killTimers,
                  drawtextSupported, pendingLaunches, restartWaits, statusEvent,
                  calls, hist, bk, playlist, disk, pipe, esc, resp >>

\* any track string a source may report
InitParse ==
  /\ InitSupervisor
  /\ \A s \in Stations : playlistItems[s] = 1
  /\ bk = [base |-> 0, n |-> 0, delay |-> 0, prev |-> 0]
  /\ playlist = NoPlaylist
  /\ disk = NoDisk
  /\ \E text \in Strings : np = [NoTrack EXCEPT !.text = text]
  /\ pipe = NoPipe
  /\ esc = NoEscape
  /\ resp = NoResponse

NextParse == ParseTrack

SpecParse == InitParse /\ [][NextParse]_vars

\* ------------------------------------------- the two-process pipeline, logs

\* launches of the pipeline over a run of the pipeline specification
MaxLaunches == 3

\* words of a chunk that a process writes to stdout or stderr
MaxChunk == 3

\* What a chunk is made of.  "frame" stands for any of the progress counters
\* frame, size, bitrate, speed, fps; "error" and "FAULT" for the failure
\* keywords in either case; " " for white space; "x" for any other text.
Words == {"frame", "=", " ", "error", "FAULT", "x"}

Chunks == UNION { [1 .. n -> Words] : n \in 0 .. MaxChunk }

\* data.toString().trim()
RECURSIVE TrimLine(_)
TrimLine(chunk) ==
  IF chunk = << >> THEN chunk
  ELSE IF Head(chunk) = " " THEN TrimLine(Tail(chunk))
  ELSE IF chunk[Len(chunk)] = " " THEN TrimLine(SubSeq(chunk, 1, Len(chunk) - 1))
  ELSE chunk

\* /^(frame|size|bitrate|speed|fps)\s*=/.test(line) || /^\s*(frame|size)=/.test(line)
IsProgress(line) ==
  \/ /\ Len(line) >= 2
     /\ line[1] = "frame"
     /\ \E k \in 2 .. Len(line) :
          /\ line[k] = "="
          /\ \A j \in 2 .. (k - 1) : line[j] = " "
  \/ \E k \in 1 .. (Len(line) - 1) :
       /\ line[k] = "frame"
       /\ line[k + 1] = "="
       /\ \A j \in 1 .. (k - 1) : line[j] = " "

\* /error|failed|invalid|corrupt|broken|fault/i.test(line)
IsError(line) == \E k \in 1 .. Len(line) : line[k] \in {"error", "FAULT"}

\* this.emit('log', stationId, level, source, line)
LogEvent(level, source) == [level |-> level, source |-> source]

\* ffmpeg.stderr.on('data'): the events it emits
StderrEvents(chunk) ==
  LET line == TrimLine(chunk)
  IN IF line = << >> THEN << >>
     ELSE IF ~IsProgress(line)
          THEN IF IsError(line) THEN << LogEvent("error", "ffmpeg") >>
               ELSE << LogEvent("debug", "ffmpeg") >>
          ELSE << LogEvent("debug", "ffmpeg") >>

\* ffmpeg.stdout.on('data'): the events it emits
StdoutEvents(chunk) ==
  IF TrimLine(chunk) = << >> THEN << >> ELSE << LogEvent("info", "ffmpeg") >>

\* feeder.stderr.on('data'): the events it emits
FeederStderrEvents(chunk) ==
  LET line == TrimLine(chunk)
  IN IF line # << >> /\ IsError(line) THEN << LogEvent("warn", "feeder") >> ELSE << >>

\* the stations row the pipeline specification launches with
PipeConfig == CHOOSE c \in OneConfig : TRUE

OnStderrData_FailureSetsError(p, chunk) ==
  [p EXCEPT !.log = StderrEvents(chunk), !.chunk = chunk,
            !.status = IF IsError(TrimLine(chunk)) THEN "error" ELSE @,
            !.lastError = IF IsError(TrimLine(chunk)) THEN "stderr" ELSE @]

\* ffmpeg.stderr.on('data'): it emits and writes nothing of the instance
OnStderrData(p, chunk) == [p EXCEPT !.log = StderrEvents(chunk), !.chunk = chunk]

\* ffmpeg.stdout.on('data')
OnStdoutData(p, chunk) == [p EXCEPT !.log = StdoutEvents(chunk), !.chunk = chunk]

\* feeder.stderr.on('data')
OnFeederStderrData(p, chunk) == [p EXCEPT !.log = FeederStderrEvents(chunk), !.chunk = chunk]

\* launchFFmpeg of the pipeline with a feeder: both processes are spawned and
\* the new instance carries the restart counter
PipeLaunchBody(p) ==
  [p EXCEPT !.ffmpeg = "live", !.feeders = @ + 1, !.status = "running",
            !.lastError = "", !.launches = @ + 1,
            !.chunk = << >>, !.log = << LogEvent("info", "app") >>]

OutsidePipe ==
  << dbStatus, playlistItems, blocked, playlistFile, processes, objs, nowPlayingServices, pollers,
     restartTimers, timers, killTimers, drawtextSupported, pendingLaunches,
     restartWaits, statusEvent, calls, hist, bk, playlist, disk, np, esc, resp >>

\* startStation for a station that is not Running; the specification starts
\* it only once the encoder of the previous launch has exited
PipeStart ==
  /\ pipe.status \notin {"running", "starting"}
  /\ pipe.ffmpeg # "live"
  /\ pipe.launches < MaxLaunches
  /\ pipe' = PipeLaunchBody(pipe)
  /\ UNCHANGED OutsidePipe

\* the restart timer fires
PipeTimerFire ==
  /\ pipe.timer
  /\ pipe.ffmpeg # "live"
  /\ pipe.launches < MaxLaunches
  /\ pipe' = PipeLaunchBody([pipe EXCEPT !.timer = FALSE])
  /\ UNCHANGED OutsidePipe

\* stopStation: the instance is marked, both processes are signalled, the
\* restart timer is cleared
PipeStop ==
  /\ pipe' = [pipe EXCEPT !.status = IF pipe.launches > 0 THEN "stopped" ELSE @,
                          !.timer = FALSE, !.chunk = << >>, !.log = << >>]
  /\ UNCHANGED OutsidePipe

OnFeederClose_DrivesRestart(p) ==
  [p EXCEPT !.feeders = @ - 1, !.status = "error", !.lastError = "Video feeder finished",
            !.restartCount = @ + 1, !.timer = TRUE,
            !.chunk = << >>, !.log = << LogEvent("info", "app") >>]

\* feeder.on('close')
OnFeederClose(p) ==
  [p EXCEPT !.feeders = @ - 1, !.chunk = << >>, !.log = << LogEvent("info", "app") >>]

\* a feeder process exits
FeederClose ==
  /\ pipe.feeders > 0
  /\ pipe' = OnFeederClose(pipe)
  /\ UNCHANGED OutsidePipe

\* ffmpeg.on('close') of the encoder: the feeder is signalled; unless the
\* instance is marked stopped, Error and the restart decision
OnEncoderClose(p) ==
  LET exited == [p EXCEPT !.ffmpeg = "exited", !.chunk = << >>,
                          !.log = << LogEvent("info", "app") >>]
  IN IF p.status = "stopped" THEN exited
     ELSE IF MayRestart(PipeConfig, p.restartCount)
          THEN [exited EXCEPT !.status = "error", !.lastError = "FFmpeg exited",
                              !.restartCount = @ + 1, !.timer = TRUE,
                              !.log = @ \o << LogEvent("info", "app") >>]
          ELSE [exited EXCEPT !.status = "error", !.lastError = "FFmpeg exited"]

\* the encoder process exits
EncoderClose ==
  /\ pipe.ffmpeg = "live"
  /\ pipe' = OnEncoderClose(pipe)
  /\ UNCHANGED OutsidePipe

\* the encoder writes a chunk to stderr
StderrData(chunk) ==
  /\ pipe.ffmpeg = "live"
  /\ pipe' = OnStderrData(pipe, chunk)
  /\ UNCHANGED OutsidePipe

\* the encoder writes a chunk to stdout
StdoutData(chunk) ==
  /\ pipe.ffmpeg = "live"
  /\ pipe' = OnStdoutData(pipe, chunk)
  /\ UNCHANGED OutsidePipe

\* a feeder writes a chunk to stderr
FeederStderrData(chunk) ==
  /\ pipe.feeders > 0
  /\ pipe' = OnFeederStderrData(pipe, chunk)
  /\ UNCHANGED OutsidePipe

InitPipe ==
  /\ InitSupervisor
  /\ \A s \in Stations : playlistItems[s] = 1
  /\ bk = [base |-> 0, n |-> 0, delay |-> 0, prev |-> 0]
  /\ playlist = NoPlaylist
  /\ disk = NoDisk
  /\ np = NoTrack
  /\ pipe = NoPipe
  /\ esc = NoEscape
  /\ resp = NoResponse

\* one chunk of each kind: blank, progress, failure, other
SampleChunks == { << " " >>, << "frame", "=" >>, << "error" >>, << "x" >> }

NextPipe ==
  \/ PipeStart
  \/ PipeTimerFire
  \/ PipeStop
  \/ FeederClose
  \/ EncoderClose
  \/ \E chunk \in SampleChunks : StderrData(chunk)
  \/ \E chunk \in SampleChunks : StdoutData(chunk)
  \/ \E chunk \in SampleChunks : FeederStderrData(chunk)

SpecPipe == InitPipe /\ [][NextPipe]_vars

\* a pipeline that has been launched and whose processes write any chunk
InitLog ==
  /\ InitSupervisor
  /\ \A s \in Stations : playlistItems[s] = 1
  /\ bk = [base |-> 0, n |-> 0, delay |-> 0, prev |-> 0]
  /\ playlist = NoPlaylist
  /\ disk = NoDisk
  /\ np = NoTrack
  /\ pipe = PipeLaunchBody(NoPipe)
  /\ esc = NoEscape
  /\ resp = NoResponse

NextLog ==
  \/ \E chunk \in Chunks : StderrData(chunk)
  \/ \E chunk \in Chunks : StdoutData(chunk)
  \/ \E chunk \in Chunks : FeederStderrData(chunk)

SpecLog == InitLog /\ [][NextLog]_vars

\* ------------------------------------------- the now-playing diagnostics

\* the values of a string field of a response: missing or empty, or a name
FieldStrings == { << >>, << "a" >> }

\* the values of a combined text: missing or empty, a title, "Artist - Title"
TextStrings == { << >>, << "a" >>, << "a", " ", "-", " ", "a" >> }

\* What an upstream answers.  ok: the HTTP status is 2xx.  present: the body
\* has now_playing.song (AzuraCast) or icestats.source (Icecast).  text is
\* now_playing.text; server_name is the Icecast source's.
Responses ==
  [ ok : BOOLEAN, present : BOOLEAN, artist : FieldStrings, title : TextStrings,
    text : TextStrings, server_name : FieldStrings ]

\* a TrackInfo that a fetch returned
Returned(artist, title, full) ==
  [done |-> TRUE, threw |-> FALSE, artist |-> artist, title |-> title, full |-> full]

\* the fetch threw
Threw == [done |-> TRUE, threw |-> TRUE, artist |-> << >>, title |-> << >>, full |-> << >>]

ReturnedInfo(info) == Returned(info.artist, info.title, info.full)

\* a || b for strings
OrElse(a, b) == IF a # << >> THEN a ELSE b

\* fetchAzuraCast
FetchAzuraCast(body) ==
  IF ~body.ok THEN Threw
  ELSE IF body.present
  THEN Returned(body.artist, body.title,
                IF body.artist # << >> /\ body.title # << >>
                THEN body.artist \o Separator \o body.title
                ELSE OrElse(body.artist, OrElse(body.title, body.text)))
  ELSE ReturnedInfo(ParseTrackString(body.text))

\* fetchIcecast
FetchIcecast(body) ==
  IF ~body.ok THEN Threw
  ELSE IF ~body.present THEN Returned(<< >>, << >>, << >>)
  ELSE IF body.artist # << >> /\ body.title # << >>
  THEN Returned(body.artist, body.title, body.artist \o Separator \o body.title)
  ELSE IF body.title # << >> /\ body.artist = << >>
  THEN ReturnedInfo(ParseTrackString(body.title))
  ELSE Returned(<< >>, OrElse(body.title, body.server_name), body.title)

\* what poll() gets from its fetch
FetchTrack(mode, body) ==
  IF mode = "azuracast" THEN FetchAzuraCast(body) ELSE FetchIcecast(body)

\* testNowPlaying: its own copy of the fetch, which does not look at the HTTP
\* status; track, artist and title of what it returns
TestNowPlaying(mode, body) ==
  IF mode = "azuracast"
  THEN IF body.present
       THEN Returned(body.artist, body.title,
                     IF body.artist # << >> /\ body.title # << >>
                     THEN body.artist \o Separator \o body.title
                     ELSE << >>)
       ELSE Returned(<< >>, << >>, << >>)
  ELSE IF body.present
       THEN IF body.artist # << >> /\ body.title # << >>
            THEN Returned(body.artist, body.title, body.artist \o Separator \o body.title)
            ELSE IF body.title # << >>
            THEN ReturnedInfo(ParseTrackString(body.title))
            ELSE Returned(<< >>, << >>, << >>)
       ELSE Returned(<< >>, << >>, << >>)

OutsideResp ==
  << dbStatus, playlistItems, blocked, playlistFile, processes, objs, nowPlayingServices, pollers,
     restartTimers, timers, killTimers, drawtextSupported, pendingLaunches,
     restartWaits, statusEvent, calls, hist, bk, playlist, disk, np, pipe, esc >>

\* the poll loop fetches the response
PollFetch ==
  /\ ~resp.poll.done
  /\ resp' = [resp EXCEPT !.poll = FetchTrack(resp.mode, resp.body)]
  /\ UNCHANGED OutsideResp

\* POST /api/stations/:id/test-nowplaying gets the same response
TestFetch ==
  /\ ~resp.test.done
  /\ resp' = [resp EXCEPT !.test = TestNowPlaying(resp.mode, resp.body)]
  /\ UNCHANGED OutsideResp

\* any response of either kind of upstream
InitDiag ==
  /\ InitSupervisor
  /\ \A s \in Stations : playlistItems[s] = 1
  /\ bk = [base |-> 0, n |-> 0, delay |-> 0, prev |-> 0]
  /\ playlist = NoPlaylist
  /\ disk = NoDisk
  /\ np = NoTrack
  /\ pipe = NoPipe
  /\ esc = NoEscape
  /\ \E mode \in {"azuracast", "icecast"}, body \in Responses :
       /\ mode = "azuracast" => body.server_name = << >>
       /\ mode = "icecast" => body.text = << >>
       /\ resp = [mode |-> mode, body |-> body, poll |-> NoResult, test |-> NoResult]

NextDiag == PollFetch \/ TestFetch

SpecDiag == InitDiag /\ [][NextDiag]_vars

\* --------------------------------------------- escaping in the overlay filter

MaxText == 3

\* the characters the escaping rules treat specially, a forward slash and a
\* letter
TextChars == {":", "'", "\\", "/", "a"}

Texts == UNION { [1..n -> TextChars] : n \in 0..MaxText }

\* String.prototype.replace with a global one-character pattern
RECURSIVE ReplaceAll(_, _, _)
ReplaceAll(s, ch, by) ==
  IF s = << >> THEN << >>
  ELSE (IF Head(s) = ch THEN by ELSE << Head(s) >>) \o ReplaceAll(Tail(s), ch, by)

\* a label whose colons are left as they are
EscapedLabel_ColonBare(text) == ReplaceAll(text, "'", << "'", "\\", "'", "'" >>)

\* the static label: colon, then single quote
EscapedLabel(text) ==
  ReplaceAll(ReplaceAll(text, ":", << "\\", ":" >>), "'", << "'", "\\", "'", "'" >>)

\* a text file path: backslash, then colon, then single quote
EscPath(p) ==
  ReplaceAll(ReplaceAll(ReplaceAll(p, "\\", << "\\", "\\", "\\", "\\" >>),
                        ":", << "\\", "\\", ":" >>),
             "'", << "'", "\\", "\\", "'", "'" >>)

OutsideEsc ==
  << dbStatus, playlistItems, blocked, playlistFile, processes, objs, nowPlayingServices, pollers,
     restartTimers, timers, killTimers, drawtextSupported, pendingLaunches,
     restartWaits, statusEvent, calls, hist, bk, playlist, disk, np, pipe, resp >>

\* the overlay builder escapes the station's label
EscapeLabel ==
  /\ esc.kind = "none"
  /\ esc' = [esc EXCEPT !.kind = "label", !.escaped = EscapedLabel(esc.text)]
  /\ UNCHANGED OutsideEsc

\* the overlay builder escapes the path of a text file
EscapePath ==
  /\ esc.kind = "none"
  /\ esc' = [esc EXCEPT !.kind = "path", !.escaped = EscPath(esc.text)]
  /\ UNCHANGED OutsideEsc

\* any label or path over the characters
InitEscape ==
  /\ InitSupervisor
  /\ \A s \in Stations : playlistItems[s] = 1
  /\ bk = [base |-> 0, n |-> 0, delay |-> 0, prev |-> 0]
  /\ playlist = NoPlaylist
  /\ disk = NoDisk
  /\ np = NoTrack
  /\ pipe = NoPipe
  /\ resp = NoResponse
  /\ \E text \in Texts : esc = [kind |-> "none", text |-> text, escaped |-> << >>]

NextEscape == EscapeLabel \/ EscapePath

SpecEscape == InitEscape /\ [][NextEscape]_vars

\* ------------------------------------------------------------------ claims

Status(s) == StationStatus(Cur, s)

\* the station is Running and its object holds a process handle
Running(s) ==
  /\ processes[s] # 0
  /\ objs[processes[s]].status = "running"
  /\ objs[processes[s]].ffmpeg # "null"

SpawnedOf(os, s) == { o \in Spawned(os) : os[o].station = s }

ExitedOf(os, s) == { o \in DOMAIN os : os[o].station = s /\ os[o].ffmpeg = "exited" }

ScheduledOf(ts, s) == { t \in DOMAIN ts : ts[t].station = s }

HasPendingLaunch(s) == \E i \in DOMAIN pendingLaunches : pendingLaunches[i].station = s

ReadCfgs == Configs \cup {NullCfg, NoRow}

\* C1 (idempotent start): when the only calls for a station have been two
\* startStation calls and none of its processes has exited, at most one
\* process has been spawned for it.
C1_IdempotentStart ==
  \A s \in Stations :
    (hist[s].trace = "SS" /\ ExitedOf(objs, s) = {})
      => Cardinality(SpawnedOf(objs, s)) <= 1

\* C2 (stop suppresses restart): after stopStation was called for a station
\* in Error with a restart timer pending, and until the next explicit start
\* or restart, no restart timer of that station fires.
C2_StopSuppressesRestart ==
  [][ \A t \in DOMAIN timers, audio \in BOOLEAN, dest \in BOOLEAN :
        TimerFire(t, audio, dest) => ~hist[timers[t].station].stopGuard ]_vars

\* C3 (an exit after a stop is no failure): the close handler of a process
\* that stopStation marked Stopped before it exited does not set Error, emits
\* no status event and schedules no restart timer.
C3_ExitAfterStopIgnored ==
  [][ \A o \in DOMAIN objs :
        (ProcessClose(o) /\ objs[o].stopMarked)
          => LET r == OnClose(Cur, o)
             IN /\ r.objs[o].status # "error"
                /\ r.statusEvent = statusEvent
                /\ r.timers = timers ]_vars

\* C4 (a manual start meets a pending automatic restart): once startStation
\* was called for a station in Error with a restart timer pending, the
\* station never has two live primary processes.
C4_StartOnPendingOneLive ==
  \A s \in Stations :
    hist[s].startOnPending => Cardinality(Live(objs, s)) <= 1

\* C5 (an explicit restart first fully stops): when restartStation spawns
\* the replacement, no process of the station is still alive.
C5_RestartFullyStops ==
  [][ \A s \in Stations, cfg \in ReadCfgs, audio \in BOOLEAN, dest \in BOOLEAN :
        (RestartResume(s, cfg, audio, dest)
           /\ Cardinality(Spawned(objs')) > Cardinality(Spawned(objs)))
          => Live(objs, s) = {} ]_vars

\* C6 (attempt budget): after a single startStation call and no other call,
\* with auto-restart on and max_restart_attempts = M, at most M restarts are
\* ever scheduled, and once M + 1 processes have exited exactly M were
\* scheduled, the station is in Error and no restart timer is pending.
C6_AttemptBudget ==
  \A s \in Stations :
    (hist[s].trace = "S" /\ processes[s] # 0 /\ objs[processes[s]].ffmpeg # "null"
       /\ objs[processes[s]].cfg.auto_restart # 0)
      => LET M == objs[processes[s]].cfg.max_restart_attempts
         IN /\ Cardinality(ScheduledOf(timers, s)) <= M
            /\ Cardinality(ExitedOf(objs, s)) = M + 1
                 => /\ Cardinality(ScheduledOf(timers, s)) = M
                    /\ Status(s) = "error"
                    /\ PendingTimers(timers, s) = {}

C6_Witness ==
  \E s \in Stations :
    /\ hist[s].trace = "S"
    /\ processes[s] # 0
    /\ objs[processes[s]].cfg.auto_restart # 0
    /\ objs[processes[s]].cfg.max_restart_attempts = 2
    /\ Cardinality(ExitedOf(objs, s)) = 3
    /\ Status(s) = "error"

\* C7 (manual restart resets the budget): when restartStation was called
\* with the budget exhausted and no other call or event came in between, its
\* start, reading a launchable configuration, leaves the station Running
\* with a live process and restart counter 0.
C7_RestartResetsBudget ==
  [][ \A s \in Stations, cfg \in Configs :
        (hist[s].rx = "settling" /\ RestartResume(s, cfg, TRUE, TRUE))
          => /\ Running(s)'
             /\ objs'[processes'[s]].ffmpeg = "live"
             /\ objs'[processes'[s]].restartCount = 0 ]_vars

C7_Witness ==
  \E s \in Stations :
    /\ hist[s].rx = "done"
    /\ ScheduledOf(timers, s) # {}
    /\ Running(s)
    /\ objs[processes[s]].restartCount = 0

\* the delay the specification gives, in seconds (in units of 1 / Ms)
SpecDelaySeconds(base, n) == Min(base * Pow(3, n) * Pow(2, MaxCount - n), 60 * Ms)

C9_PreconditionFailure ==
  [][ \A s \in Stations, cfg \in Configs, audio \in BOOLEAN, dest \in BOOLEAN :
        ((~audio \/ ~dest) /\ StartStation(s, cfg, audio, dest))
          => /\ processes'[s] # 0
             /\ objs'[processes'[s]].status = "error"
             /\ objs'[processes'[s]].lastError =
                  (IF ~audio THEN "No audio source" ELSE "No RTMP destinations")
             /\ Cardinality(Spawned(objs')) = Cardinality(Spawned(objs))
             /\ pendingLaunches' = pendingLaunches ]_vars

\* C10 (happy path): a startStation call for a Stopped station with an
\* enabled playlist item that reads an enabled audio source and an enabled
\* destination leaves the station
\* Running with a process handle, or its launch suspended and the station
\* not in Error; a station whose only call was that start is not in Error
\* while the launch is suspended; and a suspended launch leads to Running.
C10_HappyPath ==
  /\ [][ \A s \in Stations, cfg \in Configs :
           (Status(s) = "stopped" /\ playlistItems[s] = 1
              /\ StartStation(s, cfg, TRUE, TRUE))
             => \/ Running(s)'
                \/ /\ Len(pendingLaunches') = Len(pendingLaunches) + 1
                   /\ StationStatus(Cur, s)' # "error" ]_vars
  /\ [](\A s \in Stations :
          (hist[s].trace = "S" /\ HasPendingLaunch(s)) => Status(s) # "error")
  /\ \A s \in Stations : HasPendingLaunch(s) ~> Running(s)

C10_Witness ==
  \E s \in Stations :
    /\ hist[s].trace = "S"
    /\ Running(s)
    /\ objs[processes[s]].ffmpeg = "live"
    /\ ExitedOf(objs, s) = {}

\* C11 (stop reaches Stopped from any state): after a stopStation call the
\* state getStationStatus reports for the station is 'stopped'.
C11_StopReachesStopped ==
  [][ \A s \in Stations : StopStation(s) => StationStatus(Cur, s)' = "stopped" ]_vars

\* C12 (stop is a no-op on a stopped pipeline): a stopStation call for a
\* station that has no instance or is Stopped leaves the instances, their
\* state, restart counters and process handles, the poller and the restart
\* timers as they were.
C12_StopOnStoppedNoOp ==
  [][ \A s \in Stations :
        (StationStatus(Cur, s) = "stopped" /\ StopStation(s))
          => /\ processes' = processes
             /\ objs' = objs
             /\ nowPlayingServices' = nowPlayingServices
             /\ restartTimers' = restartTimers
             /\ timers' = timers ]_vars

\* C13 (forced termination after the grace window): when the 5 s timer of a
\* stopStation call fires and the process it was armed for has not exited,
\* the timer sends that process SIGKILL.
C13_ForcedKillAfterGrace ==
  [][ \A o \in DOMAIN objs :
        (KillTimerFire(o) /\ objs[o].ffmpeg = "live")
          => objs'[o].sig = "SIGKILL" ]_vars

\* C14 (configuration is fixed until an explicit restart): a timer-driven
\* relaunch uses the audio source and destinations of the launch that spawned
\* the process it replaces, all of which were present; so it never ends in
\* Error for a missing audio source or a missing destination.
C14_ConfigFixedUntilRestart ==
  [][ \A t \in DOMAIN timers : \A audio \in BOOLEAN, dest \in BOOLEAN :
        TimerFire(t, audio, dest)
          => LET s == timers[t].station
             IN ~ /\ StationStatus(Cur, s)' = "error"
                  /\ objs'[processes'[s]].lastError
                       \in {"No audio source", "No RTMP destinations"} ]_vars

\* what the supervisor holds for station s: its map entry, its StationProcess
\* objects (state, restart counter, process handle), their SIGKILL timers, its
\* poller, its restart timers, its suspended launches, its row's status, its
\* last event and its manifest
StationView(s) ==
  [ entry    |-> processes[s],
    objects  |-> [ o \in { x \in DOMAIN objs : objs[x].station = s } |-> objs[o] ],
    kills    |-> { o \in killTimers : objs[o].station = s },
    poller   |-> nowPlayingServices[s],
    polling  |-> pollers[s],
    timer    |-> restartTimers[s],
    timers   |-> [ t \in ScheduledOf(timers, s) |-> timers[t] ],
    launches |-> SelectSeq(pendingLaunches, LAMBDA l : l.station = s),
    settling |-> restartWaits[s],
    status   |-> dbStatus[s],
    event    |-> statusEvent[s],
    manifest |-> playlistFile[s] ]

\* a supervisor operation or callback for station a takes the step
ActsFor(a) ==
  \/ \E cfg \in ReadCfgs, audio \in BOOLEAN, dest \in BOOLEAN :
        \/ StartStation(a, cfg, audio, dest)
        \/ RestartResume(a, cfg, audio, dest)
  \/ StopStation(a)
  \/ RestartStation(a)
  \/ \E o \in DOMAIN objs :
        objs[o].station = a /\ (ProcessClose(o) \/ KillTimerFire(o))
  \/ \E t \in DOMAIN timers : \E audio \in BOOLEAN, dest \in BOOLEAN :
        timers[t].station = a /\ TimerFire(t, audio, dest)
  \/ \E i \in DOMAIN pendingLaunches :
        pendingLaunches[i].station = a /\ LaunchResume(i)

RestartCount(s) == IF processes[s] = 0 THEN 0 ELSE objs[processes[s]].restartCount

\* the step puts a newly spawned process in the map for station s
SpawnsFor(s) ==
  /\ processes'[s] # processes[s]
  /\ objs'[processes'[s]].ffmpeg = "live"

\* restartStation resumes for station s after its settle delay
RestartResumes(s) ==
  \E cfg \in ReadCfgs, audio \in BOOLEAN, dest \in BOOLEAN : RestartResume(s, cfg, audio, dest)

\* C16 (only restart resets the counter): a step that decreases a station's
\* restart counter is a restartStation resuming after its settle delay; a
\* step of anything else that spawns a process for the station leaves the
\* counter at the value it had.
C16_OnlyRestartResets ==
  [][ \A s \in Stations :
        /\ RestartCount(s)' < RestartCount(s) => RestartResumes(s)
        /\ (SpawnsFor(s) /\ RestartCount(s)' # RestartCount(s)) => RestartResumes(s) ]_vars

\* a process spawned by a relaunch is Running with the counter its
\* predecessors' failures left
C16_Witness ==
  \E s \in Stations : Running(s) /\ objs[processes[s]].ffmpeg = "live" /\ RestartCount(s) > 0

\* startStation is called for station s
StartsStation(s) ==
  \E cfg \in ReadCfgs, audio \in BOOLEAN, dest \in BOOLEAN : StartStation(s, cfg, audio, dest)

\* C17 (the counter resets to zero on a manual start), as stated: after a
\* startStation call that launches a pipeline the station's restart counter
\* is 0.
C17_ManualStartResets ==
  [][ \A s \in Stations :
        (SpawnsFor(s) /\ StartsStation(s)) => RestartCount(s)' = 0 ]_vars

\* C17, amended: a startStation call leaves the station's restart counter at
\* the value it had, whether or not it launches a pipeline.
C17_ManualStartKeepsCount ==
  [][ \A s \in Stations :
        RestartCount(s)' = RestartCount(s) \/ ~StartsStation(s) ]_vars

\* the second of two startStation calls has spawned a process while the
\* restart timer of the first one's failure is still pending, and the counter
\* is not 0
C17_Witness ==
  \E s \in Stations :
    /\ hist[s].trace = "SS"
    /\ Running(s)
    /\ PendingTimers(timers, s) # {}
    /\ RestartCount(s) > 0

\* the launch of the step was aborted by a precondition failure and the
\* Error state recorded for station s
PreconditionError(s) ==
  /\ Status(s)' = "error"
  /\ objs'[processes'[s]].lastError \in {"No audio source", "No RTMP destinations", "No playlist"}

\* C18 (precondition errors reach the caller): when the launch started by a
\* startStation call is aborted by a precondition failure and the Error state
\* is recorded, the call throws to its caller.
C18_PreconditionErrorsThrown ==
  [][ \A s \in Stations, cfg \in OneConfig, audio \in BOOLEAN, dest \in BOOLEAN :
        (StartStation(s, cfg, audio, dest) /\ ~(audio /\ dest) /\ PreconditionError(s))
          => hist'[s].threw ]_vars

\* the enabled rows of the table
EnabledRows(items) == { i \in DOMAIN items : items[i].is_enabled = 1 }

RECURSIVE SumOver(_, _)
SumOver(S, f) ==
  IF S = {} THEN 0
  ELSE LET x == CHOOSE y \in S : TRUE IN f[x] + SumOver(S \ {x}, f)

\* D: the durations of the enabled rows summed, 300 s for a row without one
SpecTotalSeconds(items) ==
  SumOver(EnabledRows(items),
          [ i \in DOMAIN items |->
              IF items[i].duration_sec = Null THEN 300 ELSE items[i].duration_sec ])

\* C19 (playlist repeat coverage): a written manifest is a whole number of
\* copies of one block; the block names each enabled row once, in ascending
\* sort_order; the copies are at least 2 and at least ceil(86400 / D).
C19_RepeatCoverage ==
  playlist.lines # << >> =>
    LET items == playlist.items
        lines == playlist.lines
        k == Cardinality(EnabledRows(items))
        n == Len(lines)
        D == SpecTotalSeconds(items)
    IN /\ k > 0
       /\ n % k = 0
       /\ \A j \in 1 .. n : lines[j] = lines[((j - 1) % k) + 1]
       /\ { lines[j][2] : j \in 1 .. k } = { items[i].filename : i \in EnabledRows(items) }
       /\ \A i \in 1 .. k, j \in 1 .. k :
            i < j => items[lines[i][2]].sort_order <= items[lines[j][2]].sort_order
       /\ n \div k >= 2
       /\ (n \div k) * D >= 86400

\* a manifest was written for a table whose enabled rows are stored against
\* their sort order, with more than two copies
C19_Witness ==
  /\ playlist.lines # << >>
  /\ \E i \in EnabledRows(playlist.items), j \in EnabledRows(playlist.items) :
        i < j /\ playlist.items[i].sort_order > playlist.items[j].sort_order
  /\ Len(playlist.lines) > 2 * Cardinality(EnabledRows(playlist.items))

\* C20 (all persisted-file writes are atomic): whenever another process
\* reads playlist.txt, nowplaying.txt, artist.txt or songtitle.txt, the file
\* is not one that has been opened for writing and holds no data yet.
C20_AtomicWrites ==
  \A name \in FinalNames : disk.files[Final(name)] # Empty

\* C21 (combined-string parsing): after parseTrackString, if the string
\* holds " - " the artist is everything before its first occurrence and the
\* title everything after it; otherwise the artist is empty and the title is
\* the whole string.
C21_SplitOnFirstSeparator ==
  np.parsed =>
    LET i == IndexOf(np.text, Separator)
    IN IF i >= 0
       THEN /\ np.artist = SubSeq(np.text, 1, i)
            /\ np.title = SubSeq(np.text, i + 4, Len(np.text))
       ELSE /\ np.artist = << >>
            /\ np.title = np.text

\* C22 (the poller survives fetch failures): a tick whose fetch fails emits
\* an error event and leaves the last track, the files with the writes still
\* to be made, the poller's timer, and the station's pipeline state, process
\* objects and status column unchanged.
C22_PollerSurvivesFailure ==
  [][ PollFails =>
        /\ disk'.errors = disk.errors + 1
        /\ disk'.tracks = disk.tracks
        /\ disk'.lastTrack = disk.lastTrack
        /\ disk'.files = disk.files
        /\ disk'.ops = disk.ops
        /\ disk'.poller = disk.poller
        /\ UNCHANGED << processes, objs, dbStatus, restartTimers >> ]_vars

\* a fetch has failed after a track was written, and the poller is active
C22_Witness ==
  /\ disk.errors > 0
  /\ disk.poller
  /\ disk.lastTrack # ""
  /\ disk.files[Final("nowplaying.txt")] = Content(disk.lastTrack)

\* C23 (write only on change): a tick whose fetch returns queues the writes
\* of the three files and emits one track event if its combined string
\* differs from the last one written, and otherwise writes nothing and emits
\* nothing.
C23_WriteOnlyOnChange ==
  [][ \A info \in Tracks :
        Poll(info) =>
          IF TrackOrNone(info).full # disk.lastTrack
          THEN /\ disk'.tracks = disk.tracks + 1
               /\ { c.to.name : c \in { disk'.ops[i] : i \in DOMAIN disk'.ops } } =
                    {"nowplaying.txt", "artist.txt", "songtitle.txt"}
               /\ disk'.lastTrack = TrackOrNone(info).full
          ELSE /\ disk'.tracks = disk.tracks
               /\ disk'.ops = << >>
               /\ disk'.files = disk.files
               /\ disk'.lastTrack = disk.lastTrack ]_vars

\* the poller has ticked more often than it has emitted a track
C23_Witness ==
  /\ disk.tracks = 1
  /\ disk.polls - disk.errors >= 2
  /\ disk.files[Final("songtitle.txt")] = Content("Title")

\* C24 (poller lifetime): a station never has more than one poller whose
\* interval runs; a stopStation call leaves it with none, and a station with
\* none gets one only by a startStation call or by the start of a restart.
C24_PollerLifetime ==
  /\ [](\A s \in Stations : pollers[s] <= 1)
  /\ [][ \A s \in Stations :
           /\ pollers'[s] = 0 \/ ~StopStation(s)
           /\ (pollers[s] > 0 \/ pollers'[s] = 0) \/ StartsStation(s) \/ RestartResumes(s) ]_vars

\* a second startStation call replaced the poller of the first, whose launch
\* had been aborted
C24_Witness ==
  \E s \in Stations :
    /\ hist[s].trace = "SS"
    /\ Status(s) = "error"
    /\ SpawnedOf(objs, s) = {}
    /\ dbStatus[s] = "error"
    /\ pollers[s] = 1

\* what a status query exposes of the station's StationProcess: state,
\* restart counter and last error (getStationStatus; getAllStatuses leaves the
\* last error out).  The exit code in the last error is whatever the process
\* exited with, and two exits may give the same code.
StatusRecord(s) ==
  IF processes[s] = 0
  THEN [status |-> "stopped", restartCount |-> 0, lastError |-> ""]
  ELSE [status |-> objs[processes[s]].status,
        restartCount |-> objs[processes[s]].restartCount,
        lastError |-> objs[processes[s]].lastError]

\* C25 (exhausted is distinguishable from retrying): two stations of which one
\* is in Error with a restart timer pending and the other is in Error with its
\* budget spent and nothing pending never expose the same status record.
C25_ExhaustedDistinguishable ==
  \A s, t \in Stations :
    RetryPending(s) /\ Exhausted(t) => StatusRecord(s) # StatusRecord(t)

\* the edges of the station state machine as specified
StateEdges ==
  { <<"stopped", "starting">>, <<"starting", "running">>, <<"running", "stopped">>,
    <<"running", "error">>, <<"error", "restarting">>, <<"restarting", "starting">> }
    \cup { <<x, "stopped">> : x \in {"starting", "running", "restarting", "error"} }

\* what one turn may change the state by: an edge, or two edges through
\* Starting, the one state that launchFFmpeg sets and leaves in the same turn
\* ('starting' at line 414, 'running' at line 422, no await between them)
TurnEdges ==
  StateEdges \cup { <<e[1], f[2]>> : e \in { x \in StateEdges : x[2] = "starting" },
                                     f \in { x \in StateEdges : x[1] = "starting" } }

\* C26 (state-machine edges): every change of a station's in-memory state
\* follows an edge of Stopped -> Starting -> Running -> {Stopped | Error},
\* Error -> Restarting -> Starting, or any state -> Stopped.
C26_StateEdges ==
  [][ \A s \in Stations :
        Status(s)' = Status(s) \/ <<Status(s), Status(s)'>> \in TurnEdges ]_vars

\* the entry of getAllStatuses for a station: pid, and whether an uptime is
\* computed (startedAt is set on the object that launchFFmpeg creates with the
\* process handle and on no other); the route reports no pid and no uptime
\* for a station without an entry
GetAllStatuses(s) ==
  IF processes[s] = 0
  THEN [status |-> dbStatus[s], pid |-> 0, restartCount |-> 0, uptime |-> FALSE]
  ELSE [status |-> objs[processes[s]].status,
        pid |-> objs[processes[s]].pid,
        restartCount |-> objs[processes[s]].restartCount,
        uptime |-> objs[processes[s]].ffmpeg # "null"]

\* stopStation was the last to write the station's status, its processes have
\* exited and no launch or restart of it is under way
TornDown(s) ==
  /\ dbStatus[s] = "stopped"
  /\ hist[s].trace # ""
  /\ Live(objs, s) = {}
  /\ ~HasPendingLaunch(s)
  /\ restartWaits[s] = 0

\* C27 (teardown clears the instance): after stopStation and the exit of the
\* processes, the station's instance holds no process handle and no pid, has
\* no running poller and no pending restart timer, and a status query reports
\* no pid and no uptime.
C27_TeardownClears ==
  \A s \in Stations :
    TornDown(s) =>
      /\ processes[s] # 0 => /\ objs[processes[s]].ffmpeg = "null"
                             /\ objs[processes[s]].pid = 0
      /\ pollers[s] = 0
      /\ PendingTimers(timers, s) = {}
      /\ GetAllStatuses(s).pid = 0
      /\ ~GetAllStatuses(s).uptime

\* the station is in Error with the message of a precondition failure: the
\* last launch of it was aborted by launchFFmpeg's checks
AbortedLaunch(s) ==
  /\ Status(s) = "error"
  /\ objs[processes[s]].lastError \in {"No audio source", "No RTMP destinations", "No playlist"}

\* C28 (precondition errors are never retried automatically): while a station
\* is in Error by a precondition failure no restart timer is pending for it,
\* and a step that is not a startStation call or the start of a restart
\* leaves it with none.
C28_PreconditionNotRetried ==
  /\ [](\A s \in Stations : AbortedLaunch(s) => PendingTimers(timers, s) = {})
  /\ [][ \A s \in Stations :
           \/ ~AbortedLaunch(s)
           \/ PendingTimers(timers', s) = {}
           \/ StartsStation(s)
           \/ RestartResumes(s) ]_vars

\* the step is a launch for station s whose spawn failed: it leaves a new
\* object that held a process which never ran
SpawnFailed(s) ==
  /\ Len(objs') > Len(objs)
  /\ objs'[Len(objs')].station = s
  /\ objs'[Len(objs')].ffmpeg = "exited"

\* C29 (spawn failure is a retried runtime failure): a launch whose spawn
\* fails leaves the station in Error; if auto-restart is on and the restart
\* counter n it carried is below the maximum, a restart timer with the backoff
\* delay for n is pending and the counter is n + 1, and otherwise no timer is
\* scheduled.
C29_SpawnFailureRetried ==
  [][ \A s \in Stations :
        SpawnFailed(s) =>
          LET o == Len(objs')
              p == objs'[o]
              scheduled == Len(timers') > Len(timers)
              n == IF scheduled THEN p.restartCount - 1 ELSE p.restartCount
          IN /\ processes'[s] = o
             /\ p.status = "error"
             /\ n \in {0, RestartCount(s)}
             /\ scheduled <=> MayRestart(p.cfg, n)
             /\ scheduled =>
                  /\ restartTimers'[s] = Len(timers')
                  /\ timers'[Len(timers')] =
                       [station |-> s, cfg |-> p.cfg, n |-> n,
                        delay |-> BackoffDelay(p.cfg.restart_delay_sec, n),
                        state |-> "pending"] ]_vars

\* after one startStation call the launch and then the relaunch by the restart
\* timer have failed to spawn, and the next restart is scheduled
C29_Witness ==
  \E s \in Stations :
    /\ hist[s].trace = "S"
    /\ processes[s] # 0
    /\ objs[processes[s]].ffmpeg = "exited"
    /\ objs[processes[s]].pid = 0
    /\ objs[processes[s]].status = "error"
    /\ objs[processes[s]].restartCount = 2
    /\ PendingTimers(timers, s) # {}

\* restart timer t, scheduled by the close handler at an exit, is pending
TimerPending(t) == t \in DOMAIN timers /\ timers[t].state = "pending"

\* the relaunch by restart timer t reads a launchable configuration and
\* leaves the station Running with a live process
Relaunched(t) ==
  /\ TimerFire(t, TRUE, TRUE)
  /\ Running(timers[t].station)'
  /\ objs'[processes'[timers[t].station]].ffmpeg = "live"

\* C30 (automatic recovery happens): a restart timer scheduled at an exit
\* stops pending at some time, and only by firing or by a stopStation or
\* restartStation call; when it fires and its launch reads a launchable
\* configuration the station is Running with the restart counter one above
\* the counter at the exit.
C30_AutomaticRecovery ==
  /\ \A t \in 1 .. MaxProcs : TimerPending(t) ~> ~TimerPending(t)
  /\ [][ \A t \in 1 .. MaxProcs :
           (TimerPending(t) /\ ~TimerPending(t)')
             => \/ TimerFires(t)
                \/ StopStation(timers[t].station)
                \/ RestartStation(timers[t].station) ]_vars
  /\ [][ \A t \in 1 .. MaxProcs :
           (TimerPending(t) /\ TimerFire(t, TRUE, TRUE))
             => /\ Relaunched(t)
                /\ RestartCount(timers[t].station)' = timers[t].n + 1 ]_vars

\* With one startStation call and no other call, C30 holds: the relaunch
\* finds the object of the exited process in the map and carries its counter.
RecoveryAfterOneStart ==
  /\ \A t \in 1 .. MaxProcs : TimerPending(t) ~> ~TimerPending(t)
  /\ [][ \A t \in 1 .. MaxProcs :
           (TimerPending(t) /\ hist[timers[t].station].trace = "S" /\ TimerFire(t, TRUE, TRUE))
             => /\ Relaunched(t)
                /\ RestartCount(timers[t].station)' = timers[t].n + 1 ]_vars

\* what a frame condition on the pipeline's instance compares: state, restart
\* counter, last error, the encoder's handle and the restart timer
PipeInstance(p) ==
  [status |-> p.status, restartCount |-> p.restartCount, lastError |-> p.lastError,
   ffmpeg |-> p.ffmpeg, timer |-> p.timer]

\* C31 (feeder exit is non-authoritative): the exit of a feeder process emits
\* one log event and leaves the station's state, restart counter, last error
\* and restart timer as they were; the state becomes Error, and a restart is
\* scheduled, only at the exit of the encoder.
C31_FeederExitOnlyLogs ==
  [][ /\ FeederClose => /\ PipeInstance(pipe') = PipeInstance(pipe)
                        /\ pipe'.log = << LogEvent("info", "app") >>
      /\ ((pipe'.status = "error" /\ pipe.status # "error") \/ (pipe'.timer /\ ~pipe.timer))
           => EncoderClose ]_vars

\* the feeder of a running pipeline has exited (all videos played) and the
\* station is still Running with its encoder alive
C31_Witness ==
  /\ pipe.status = "running"
  /\ pipe.ffmpeg = "live"
  /\ pipe.feeders = 0
  /\ pipe.restartCount = 1
  /\ pipe.log = << LogEvent("info", "app") >>

\* a process of the pipeline writes a chunk and its handler runs
DataEvent ==
  \E chunk \in SampleChunks :
    StderrData(chunk) \/ StdoutData(chunk) \/ FeederStderrData(chunk)

\* C32 (log classification never changes pipeline state): handling a chunk of
\* stdout or stderr, whatever it holds, leaves the station's state, restart
\* counter, last error, process handles and restart timer as they were; all
\* it emits is log events.
C32_LogsLeaveState ==
  [][ DataEvent =>
        /\ PipeInstance(pipe') = PipeInstance(pipe)
        /\ pipe'.feeders = pipe.feeders
        /\ \A k \in 1 .. Len(pipe'.log) :
             pipe'.log[k].level \in {"debug", "info", "warn", "error"} ]_vars

\* a chunk with a failure keyword was logged at error severity and the
\* station is still Running
C32_Witness ==
  /\ pipe.chunk = << "error" >>
  /\ pipe.log = << LogEvent("error", "ffmpeg") >>
  /\ pipe.status = "running"
  /\ pipe.ffmpeg = "live"

\* the severity the specification gives a stderr line
SpecSeverity(line) ==
  IF IsProgress(line) THEN "debug"
  ELSE IF IsError(line) THEN "error"
  ELSE "info"

\* C33 (log severity): a stderr chunk of the encoder that is not blank yields
\* exactly one log event: debug for a progress line, error for a line that is
\* not a progress line and holds a failure keyword, info for any other.
C33_LogSeverity ==
  [][ \A chunk \in Chunks :
        (TrimLine(chunk) = << >> \/ ~StderrData(chunk))
          \/ pipe'.log = << LogEvent(SpecSeverity(TrimLine(chunk)), "ffmpeg") >> ]_vars

\* C34 (the diagnostic test uses the poll loop's fetch and parse): for every
\* upstream response, once both have handled it, the track, artist and title
\* that testNowPlaying returns are those the poll loop's fetch computed.
C34_TestMatchesPoll ==
  (resp.poll.done /\ resp.test.done) => resp.test = resp.poll

\* is pre a prefix of s
StartsWith(s, pre) == Len(s) >= Len(pre) /\ SubSeq(s, 1, Len(pre)) = pre

Drop(s, n) == SubSeq(s, n + 1, Len(s))

\* the reverse of the label rule, read left to right
RECURSIVE UnescapeLabel(_)
UnescapeLabel(e) ==
  IF e = << >> THEN << >>
  ELSE IF StartsWith(e, << "\\", ":" >>) THEN << ":" >> \o UnescapeLabel(Drop(e, 2))
  ELSE IF StartsWith(e, << "'", "\\", "'", "'" >>) THEN << "'" >> \o UnescapeLabel(Drop(e, 4))
  ELSE << Head(e) >> \o UnescapeLabel(Tail(e))

\* the reverse of the path rule, read left to right
RECURSIVE UnescapePath(_)
UnescapePath(e) ==
  IF e = << >> THEN << >>
  ELSE IF StartsWith(e, << "\\", "\\", "\\", "\\" >>) THEN << "\\" >> \o UnescapePath(Drop(e, 4))
  ELSE IF StartsWith(e, << "\\", "\\", ":" >>) THEN << ":" >> \o UnescapePath(Drop(e, 3))
  ELSE IF StartsWith(e, << "'", "\\", "\\", "'", "'" >>) THEN << "'" >> \o UnescapePath(Drop(e, 5))
  ELSE << Head(e) >> \o UnescapePath(Tail(e))

\* C35 (escaping round trip): the escaped label and the escaped path each map
\* back to the original string under the reverse of their own rule, and no
\* other label (path) has the same escaped text: each rule is injective.
C35_EscapingRoundTrip ==
  /\ esc.kind = "label" =>
       /\ UnescapeLabel(esc.escaped) = esc.text
       /\ \A other \in Texts : EscapedLabel(other) = esc.escaped => other = esc.text
  /\ esc.kind = "path" =>
       /\ UnescapePath(esc.escaped) = esc.text
       /\ \A other \in Texts : EscPath(other) = esc.escaped => other = esc.text

\* a label with a backslash, a colon and a single quote has been escaped
C35_Witness ==
  /\ esc.kind = "label"
  /\ esc.text = << "\\", ":", "'" >>
  /\ esc.escaped = << "\\", "\\", ":", "'", "\\", "'", "'" >>

\* C36 (playlist materialization terminates): writeConcatPlaylist returns for
\* every playlist, a station with no enabled item included, so no call of
\* startStation is left inside the copying loop.
C36_PlaylistTerminates == ~blocked

\* C37 (a stopped poller is silent): from the completion of stopStation to
\* the next start, no step emits a track (the nowplaying event) or begins
\* writing a now-playing file for the station.
C37_StoppedPollerSilent ==
  [][ (disk.stopped /\ disk'.stopped) =>
        /\ disk'.tracks = disk.tracks
        /\ Len(disk'.ops) <= Len(disk.ops) ]_vars

\* no call or callback of the supervisor is suspended for the station
Settled(s) == ~HasPendingLaunch(s) /\ restartWaits[s] = 0

\* C38 (persisted status matches in-memory status): once every operation and
\* callback for a station has completed, the status column of its row equals
\* the state getStationStatus reports for it.
C38_PersistedMatchesMemory ==
  \A s \in Stations : Settled(s) => dbStatus[s] = Status(s)

\* the only operation on the station so far is one startStation call, it has
\* completed, and its launch was aborted before anything was spawned
StartAborted(s) ==
  /\ hist[s].trace = "S"
  /\ Settled(s)
  /\ AbortedLaunch(s)
  /\ SpawnedOf(objs, s) = {}

\* C39 (a failed launch starts nothing): after a startStation call whose
\* launch was aborted by a precondition failure no metadata poller of the
\* station has its interval running.
C39_FailedLaunchStartsNothing ==
  \A s \in Stations : StartAborted(s) => pollers[s] = 0

====
